---------------------------- MODULE Spec2Model ----------------------------
(***************************************************************************)
(* Estimaro backend: the estimate-generation pipeline                      *)
(* (app/services/auto_generate_service.py) and the calculation engine      *)
(* (app/services/calculation_service.py, app/services/estimate_service.py).*)
(*                                                                         *)
(* Decimal values are fixed-point integers:                                *)
(*   money      cents                    (Decimal("15.00")  = 1500)        *)
(*   hours      hundredths of an hour    (Decimal("1.5")    = 150)         *)
(*   quantity   tenths of a unit         (Decimal("1")      = 10)          *)
(*   markup     whole percent            (Decimal("30")     = 30)          *)
(*   tax rate   ten-thousandths          (Decimal("0.0925") = 925)         *)
(* Python's Decimal products of these are exact, so a product is kept at   *)
(* its full scale until the code quantizes it.                             *)
(*                                                                         *)
(* Python's None is the empty sequence <<>>, a present value v is <<v>>.   *)
(* Texts and error messages are strings; Python's `kw in text` is          *)
(* Contains(text, kw).                                                     *)
(***************************************************************************)
EXTENDS Integers, Sequences, FiniteSets, TLC

VARIABLES
    \* ---- calculation engine, called directly ----
    c_labor,        \* labor_items argument / estimate_data.laborItems
    c_parts,        \* parts_items argument / estimate_data.partsItems
    c_job_type,     \* job_type argument
    c_tax_rate,     \* tax_rate argument (<<>> = None)
    c_include,      \* include_cleaning_kit argument
    c_call,         \* which entry point produced c_out ("" = none yet)
    c_out,          \* <<breakdown>> returned by the last call
    c_hist,         \* results of successive recalculate+calculate pairs
    \* ---- _calculate_confidence_score, called directly ----
    k_steps,        \* result["steps"]: step name -> [success]
    k_flags,        \* result["flags"]
    k_out,          \* <<confidence>> returned
    \* ---- generate_estimate ----
    g_args,         \* the arguments of the call
    g_env,          \* the run's environment: escaping-exception text, calendar year
    g_pc,           \* the step about to run, then "build_response", "returned";
                    \* "raised" if an exception left generate_estimate
    g_vehicle_info, \* vehicle_info (<<>> = None)
    g_labor_items,  \* labor_items
    g_job_type,     \* job_type
    g_parts_results,\* parts_results
    g_parts_items,  \* parts_items
    g_result,       \* result
    g_trace,        \* the collaborator calls made so far and how each ended
    \* ---- the vendor, part-condition and add-on services, called directly ----
    s_call,         \* the call: [fn, ...arguments]
    s_out,          \* <<outcome>> of the call (<<>> = not made yet)
    \* ---- the approval portal service ----
    a_tokens,       \* ApprovalService._tokens: token -> token_data
    a_now,          \* datetime.utcnow(), in whole days
    a_out           \* <<[fn, token, value]>> of the last call (<<>> = none yet)

calcVars == <<c_labor, c_parts, c_job_type, c_tax_rate, c_include, c_call, c_out, c_hist>>
confVars == <<k_steps, k_flags, k_out>>

genVars == <<g_args, g_env, g_pc, g_vehicle_info, g_labor_items, g_job_type,
             g_parts_results, g_parts_items, g_result, g_trace>>

svcVars == <<s_call, s_out>>

apprVars == <<a_tokens, a_now, a_out>>

vars == <<calcVars, confVars, genVars, svcVars, apprVars>>

-----------------------------------------------------------------------------
(* Bounds of the model *)

MaxLines == 2
MaxRuns == 2
MaxFlags == 3
MaxOffers == 3
MaxDay == 21

-----------------------------------------------------------------------------
(* Generic helpers *)

None == <<>>
Some(v) == <<v>>
IsNone(o) == Len(o) = 0
Get(o) == o[1]

\* The variables of an entry point that a specification does not exercise
CalcIdle ==
    /\ c_labor = <<>> /\ c_parts = <<>> /\ c_job_type = "general" /\ c_tax_rate = None
    /\ c_include = TRUE /\ c_call = "" /\ c_out = None /\ c_hist = <<>>

ConfIdle == k_steps = <<>> /\ k_flags = <<>> /\ k_out = None

SvcIdle == s_call = <<>> /\ s_out = None

ApprIdle == a_tokens = <<>> /\ a_now = 0 /\ a_out = None

GenIdle ==
    /\ g_args = <<>> /\ g_env = <<>> /\ g_pc = "" /\ g_vehicle_info = None
    /\ g_labor_items = <<>> /\ g_job_type = "general" /\ g_parts_results = <<>>
    /\ g_parts_items = <<>> /\ g_result = <<>> /\ g_trace = <<>>

SeqsUpTo(S, n) == UNION {[1..k -> S] : k \in 0..n}

RECURSIVE SumSeq(_)
SumSeq(s) == IF Len(s) = 0 THEN 0 ELSE Head(s) + SumSeq(Tail(s))

\* A stored Decimal that is not always in cents (a line's total): n / scale
\* dollars, with the decimal places the Python product has.
Dec(n, scale) == [n |-> n, scale |-> scale]
Money(cents) == Dec(cents, 100)

\* Python's `kw in text` on strings
Contains(text, kw) ==
    \E i \in 1..(Len(text) - Len(kw) + 1) : SubSeq(text, i, i + Len(kw) - 1) = kw

UpperChars == "ABCDEFGHIJKLMNOPQRSTUVWXYZ"
LowerChars == "abcdefghijklmnopqrstuvwxyz"

MapChar(c, from, to) ==
    IF \E i \in 1..Len(from) : SubSeq(from, i, i) = c
    THEN LET i == CHOOSE j \in 1..Len(from) : SubSeq(from, j, j) = c IN SubSeq(to, i, i)
    ELSE c

RECURSIVE MapChars(_, _, _)
MapChars(text, from, to) ==
    IF Len(text) = 0 THEN ""
    ELSE MapChar(SubSeq(text, 1, 1), from, to) \o MapChars(SubSeq(text, 2, Len(text)), from, to)

\* str.lower() and str.upper()
Lower(text) == MapChars(text, UpperChars, LowerChars)
Upper(text) == MapChars(text, LowerChars, UpperChars)

\* any(kw in text for kw in keywords)
ContainsAny(text, keywords) == \E i \in 1..Len(keywords) : Contains(text, keywords[i])

\* Decimal.quantize(Decimal("0.01"), rounding=ROUND_HALF_UP) of the
\* non-negative value n / d cents.
QuantizeHalfUp(n, d) == (2 * n + d) \div (2 * d)

-----------------------------------------------------------------------------
(* calculation_service.py *)

DEFAULT_TAX_RATE == 800

CLEANING_KITS ==
    [brake_service |-> [name |-> "Brake Service Cleaning Kit", price |-> 1500],
     engine_repair |-> [name |-> "Engine Service Cleaning Kit", price |-> 2000],
     ac_service    |-> [name |-> "AC Service Cleaning Kit", price |-> 1800],
     transmission  |-> [name |-> "Transmission Service Cleaning Kit", price |-> 1600],
     suspension    |-> [name |-> "Suspension Service Cleaning Kit", price |-> 1400],
     general       |-> [name |-> "General Service Cleaning Kit", price |-> 1200]]

get_cleaning_kit_ignoring_job(job_type) == CLEANING_KITS["general"]
get_cleaning_kit(job_type) ==
    IF job_type \in DOMAIN CLEANING_KITS THEN CLEANING_KITS[job_type]
    ELSE CLEANING_KITS["general"]

\* hours x rate, in 1/10000 dollar
LaborItemRaw(item) == item.hours * item.rate

\* (cost x quantity) x (1 + markup/100), in 1/100000 dollar
PartItemRawNoMarkup(item) == (item.cost * item.quantity) * 100
PartItemRaw(item) == (item.cost * item.quantity) * (100 + item.markup)

calculate_labor_total(labor_items) ==
    QuantizeHalfUp(SumSeq([i \in 1..Len(labor_items) |-> LaborItemRaw(labor_items[i])]), 100)

calculate_parts_total(parts_items) ==
    QuantizeHalfUp(SumSeq([i \in 1..Len(parts_items) |-> PartItemRaw(parts_items[i])]), 1000)

\* `tax_rate or self.tax_rate`: None and Decimal("0") are both falsy.
EffectiveTaxRate(tax_rate) ==
    IF IsNone(tax_rate) \/ Get(tax_rate) = 0 THEN DEFAULT_TAX_RATE ELSE Get(tax_rate)

TaxAmount(subtotal, rate) == QuantizeHalfUp(subtotal * rate, 10000)

\* The fields CalculationBreakdownSchema declares; a pydantic model ignores
\* constructor keywords it does not declare.
BreakdownFields == {"laborTotal", "partsTotal", "subtotal", "taxAmount", "total"}

CalculationBreakdownSchema(kwargs) ==
    [f \in BreakdownFields \cap DOMAIN kwargs |-> kwargs[f]]

SubtotalLaborOnly(labor_total, parts_total) == labor_total
Subtotal(labor_total, parts_total) == labor_total + parts_total

SelectedKit(job_type, include_cleaning_kit) ==
    IF include_cleaning_kit THEN Some(get_cleaning_kit(job_type)) ELSE None

calculate_estimate(labor_items, parts_items, job_type, tax_rate, include_cleaning_kit) ==
    LET effective_tax_rate == EffectiveTaxRate(tax_rate)
        labor_total == calculate_labor_total(labor_items)
        parts_total == calculate_parts_total(parts_items)
        subtotal == Subtotal(labor_total, parts_total)
        tax_amount == TaxAmount(subtotal, effective_tax_rate)
        kit == SelectedKit(job_type, include_cleaning_kit)
        cleaning_kit_price == IF IsNone(kit) THEN 0 ELSE Get(kit).price
        cleaning_kit_data == IF IsNone(kit) THEN None
                             ELSE Some([name |-> Get(kit).name, price |-> cleaning_kit_price])
        total == subtotal + tax_amount + cleaning_kit_price
    IN  CalculationBreakdownSchema(
            [laborTotal |-> labor_total,
             partsTotal |-> parts_total,
             subtotal |-> subtotal,
             taxAmount |-> tax_amount,
             cleaningKit |-> cleaning_kit_data,
             total |-> total])

LaborLineTotalAccumulating(item) ==
    Money(item.total.n + QuantizeHalfUp(LaborItemRaw(item), 100))
LaborLineTotal(item) == Money(QuantizeHalfUp(LaborItemRaw(item), 100))
PartLineTotal(item) == Money(QuantizeHalfUp(PartItemRaw(item), 1000))

recalculate_item_totals(labor_items, parts_items) ==
    [laborItems |-> [i \in 1..Len(labor_items) |->
                        [labor_items[i] EXCEPT !.total = LaborLineTotal(labor_items[i])]],
     partsItems |-> [i \in 1..Len(parts_items) |->
                        [parts_items[i] EXCEPT !.total = PartLineTotal(parts_items[i])]]]

-----------------------------------------------------------------------------
(* auto_generate_service.py: _calculate_confidence_score *)

StepNames ==
    <<"vehicle_decode", "recall_check", "warranty_check", "labor_lookup", "parts_search",
      "vendor_compare", "part_conditions", "addon_detection", "calculation">>

StepSet == {StepNames[i] : i \in 1..Len(StepNames)}

CriticalSteps == {"vehicle_decode", "labor_lookup"}

StepDeductionNothing(step_name, step_data) == 0
StepDeduction(step_name, step_data) ==
    IF ~step_data.success
    THEN (IF step_name \in CriticalSteps THEN 30 ELSE 10)
    ELSE 0

\* flag.get("type", "")
FlagDeduction(flag) ==
    CASE flag.type = "RED" -> 20
      [] flag.type = "WARNING" -> 10
      [] flag.type = "YELLOW" -> 5
      [] OTHER -> 0

RECURSIVE SumOver(_, _)
SumOver(f, S) ==
    IF S = {} THEN 0
    ELSE LET x == CHOOSE y \in S : TRUE IN f[x] + SumOver(f, S \ {x})

ClampUnclamped(score) == score
Clamp(score) == IF score < 0 THEN 0 ELSE score

ThresholdOfStrict(score) ==
    IF score > 90 THEN [threshold |-> "HIGH", action |-> "Auto-proceed"]
    ELSE IF score > 70 THEN [threshold |-> "MEDIUM", action |-> "Quick advisor review recommended"]
    ELSE [threshold |-> "LOW", action |-> "Human advisor required"]
ThresholdOf(score) ==
    IF score >= 90 THEN [threshold |-> "HIGH", action |-> "Auto-proceed"]
    ELSE IF score >= 70 THEN [threshold |-> "MEDIUM", action |-> "Quick advisor review recommended"]
    ELSE [threshold |-> "LOW", action |-> "Human advisor required"]

\* steps: step name -> step record; flags: a sequence of present flags
calculate_confidence_score(steps, flags) ==
    LET step_deductions == SumOver([n \in DOMAIN steps |-> StepDeduction(n, steps[n])], DOMAIN steps)
        flag_deductions == SumSeq([i \in 1..Len(flags) |-> FlagDeduction(flags[i])])
        score == Clamp(100 - step_deductions - flag_deductions)
        band == ThresholdOf(score)
    IN  [score |-> score, threshold |-> band.threshold, action |-> band.action]

-----------------------------------------------------------------------------
(* The confidence score called directly, on any step outcomes and flags *)

FlagTypes == {"RED", "WARNING", "YELLOW", "INFO"}

ConfInit ==
    /\ CalcIdle
    /\ GenIdle
    /\ SvcIdle
    /\ ApprIdle
    /\ k_steps \in [StepSet -> [success : BOOLEAN]]
    /\ k_flags \in SeqsUpTo([type : FlagTypes], MaxFlags)
    /\ k_out = None

CalculateConfidenceScore ==
    /\ IsNone(k_out)
    /\ k_out' = Some(calculate_confidence_score(k_steps, k_flags))
    /\ UNCHANGED <<k_steps, k_flags>>
    /\ UNCHANGED <<calcVars, genVars, svcVars, apprVars>>

ConfNext == CalculateConfidenceScore

ConfSpec == ConfInit /\ [][ConfNext]_vars

-----------------------------------------------------------------------------
(* Inputs of the calculation engine *)

LaborLineSet ==
    {[description |-> "Brake Pad Replacement", hours |-> 150, rate |-> 12000, total |-> Money(18000)],
     [description |-> "Inspection", hours |-> 33, rate |-> 150, total |-> Money(0)],
     [description |-> "Diagnosis", hours |-> 25, rate |-> 9999, total |-> Money(7)]}

PartLineSet ==
    {[description |-> "Brake Pad Set - Front", partNumber |-> "BRK-12345", quantity |-> 10,
      cost |-> 8500, markup |-> 30, total |-> Money(11050), vendor |-> "Worldpac"],
     [description |-> "Clip", partNumber |-> "", quantity |-> 5,
      cost |-> 1, markup |-> 0, total |-> Money(3), vendor |-> "Unknown"],
     [description |-> "Sensor", partNumber |-> "SNS-1", quantity |-> 15,
      cost |-> 333, markup |-> 25, total |-> Money(0), vendor |-> "SSF"]}

JobTypes == {"brake_service", "transmission", "general", "detailing"}

TaxRates == {None, Some(0), Some(800), Some(925), Some(10000)}

-----------------------------------------------------------------------------
(* The calculation engine called directly *)

CalcInit ==
    /\ ConfIdle
    /\ GenIdle
    /\ SvcIdle
    /\ ApprIdle
    /\ c_labor \in SeqsUpTo(LaborLineSet, MaxLines)
    /\ c_parts \in SeqsUpTo(PartLineSet, MaxLines)
    /\ c_job_type \in JobTypes
    /\ c_tax_rate \in TaxRates
    /\ c_include \in BOOLEAN
    /\ c_call = ""
    /\ c_out = None
    /\ c_hist = <<>>

\* CalculationService.calculate_estimate with every argument given
CalculateEstimate ==
    /\ c_call = ""
    /\ c_call' = "calculation_service"
    /\ c_out' = Some(calculate_estimate(c_labor, c_parts, c_job_type, c_tax_rate, c_include))
    /\ UNCHANGED <<c_labor, c_parts, c_job_type, c_tax_rate, c_include, c_hist>>
    /\ UNCHANGED <<confVars, genVars, svcVars, apprVars>>

\* EstimateService.calculate_estimate (the /estimates/calculate request):
\* job_type and include_cleaning_kit are left at their defaults.
ServiceCalculateEstimate ==
    /\ c_call = ""
    /\ LET tax_rate == Some(EffectiveTaxRate(c_tax_rate))
       IN  c_out' = Some(calculate_estimate(c_labor, c_parts, "general", tax_rate, TRUE))
    /\ c_call' = "estimate_service"
    /\ UNCHANGED <<c_labor, c_parts, c_job_type, c_tax_rate, c_include, c_hist>>
    /\ UNCHANGED <<confVars, genVars, svcVars, apprVars>>

\* EstimateService.create_draft_estimate, lines 96-110: recalculate the line
\* totals, store them back, then calculate the breakdown.
RecalculateThenCalculate ==
    /\ c_call \in {"", "create_draft_estimate"}
    /\ Len(c_hist) < MaxRuns
    /\ LET recalculated == recalculate_item_totals(c_labor, c_parts)
           breakdown == calculate_estimate(recalculated.laborItems, recalculated.partsItems,
                                           "general", None, TRUE)
       IN  /\ c_labor' = recalculated.laborItems
           /\ c_parts' = recalculated.partsItems
           /\ c_out' = Some(breakdown)
           /\ c_hist' = Append(c_hist, [laborItems |-> recalculated.laborItems,
                                        partsItems |-> recalculated.partsItems,
                                        breakdown |-> breakdown])
    /\ c_call' = "create_draft_estimate"
    /\ UNCHANGED <<c_job_type, c_tax_rate, c_include>>
    /\ UNCHANGED <<confVars, genVars, svcVars, apprVars>>

CalcNext ==
    \/ CalculateEstimate
    \/ ServiceCalculateEstimate
    \/ RecalculateThenCalculate

CalcSpec == CalcInit /\ [][CalcNext]_vars

-----------------------------------------------------------------------------
(* recall_service.py *)

component_mappings ==
    <<[category |-> "brake", keywords |-> <<"brake", "braking", "abs", "stopping">>],
      [category |-> "fuel", keywords |-> <<"fuel", "gas", "gasoline", "leak", "smell">>],
      [category |-> "engine", keywords |-> <<"engine", "motor", "stall", "power">>],
      [category |-> "steering", keywords |-> <<"steering", "wheel", "turn", "handling">>],
      [category |-> "airbag", keywords |-> <<"airbag", "air bag", "srs", "safety">>],
      [category |-> "electrical", keywords |-> <<"electrical", "battery", "short", "fire">>],
      [category |-> "transmission", keywords |-> <<"transmission", "gear", "shift">>],
      [category |-> "suspension", keywords |-> <<"suspension", "shock", "strut">>],
      [category |-> "tire", keywords |-> <<"tire", "wheel", "tyre">>],
      [category |-> "cooling", keywords |-> <<"coolant", "radiator", "overheat", "temperature">>]>>

\* A network error and a non-200 response both return [].
fetch_recalls_by_vin(fetch) == IF fetch.kind = "ok" THEN fetch.recalls ELSE <<>>

\* indices of the categories the complaint mentions
complaint_categories(complaint_lower) ==
    {c \in 1..Len(component_mappings) :
        ContainsAny(complaint_lower, component_mappings[c].keywords)}

RecallMatchesAlways(recall, categories) == TRUE
RecallMatches(recall, categories) ==
    LET recall_text == Lower(recall.component \o " " \o recall.summary)
    IN  \E c \in categories : ContainsAny(recall_text, component_mappings[c].keywords)

match_complaint_to_recalls(complaint, recalls) ==
    IF complaint = "" \/ Len(recalls) = 0 THEN <<>>
    ELSE LET categories == complaint_categories(Lower(complaint))
         IN  SelectSeq(recalls, LAMBDA r : RecallMatches(r, categories))

check_recalls(fetch, complaint_description) ==
    LET recalls == fetch_recalls_by_vin(fetch)
        matching == match_complaint_to_recalls(complaint_description, recalls)
    IN  [success |-> TRUE,
         has_open_recalls |-> Len(recalls) > 0,
         has_matching_recall |-> Len(matching) > 0,
         open_recalls_count |-> Len(recalls),
         matching_recalls_count |-> Len(matching),
         all_recalls |-> [i \in 1..Len(recalls) |-> recalls[i].campaign_number],
         matching_recalls |-> [i \in 1..Len(matching) |-> matching[i].campaign_number],
         flag |-> IF Len(matching) > 0
                  THEN Some([type |-> "RED",
                             title |-> "RECALL ALERT",
                             message |-> "Possible recall match detected! Campaign: "
                                            \o matching[1].campaign_number])
                  ELSE None]

-----------------------------------------------------------------------------
(* warranty_service.py *)

STANDARD_WARRANTIES ==
    [bumper_to_bumper |-> [years |-> 3, miles |-> 36000],
     powertrain |-> [years |-> 5, miles |-> 60000]]

LongWarranty ==
    [bumper_to_bumper |-> [years |-> 5, miles |-> 60000],
     powertrain |-> [years |-> 10, miles |-> 100000]]

FourYearWarranty ==
    [bumper_to_bumper |-> [years |-> 4, miles |-> 50000],
     powertrain |-> [years |-> 4, miles |-> 50000]]

MANUFACTURER_WARRANTIES ==
    [HYUNDAI |-> LongWarranty, KIA |-> LongWarranty, GENESIS |-> LongWarranty,
     MITSUBISHI |-> LongWarranty, BMW |-> FourYearWarranty,
     MERCEDES |-> FourYearWarranty] @@ ("MERCEDES-BENZ" :> FourYearWarranty)

POWERTRAIN_COMPONENTS ==
    <<"engine", "motor", "transmission", "transaxle", "transfer case",
      "drive shaft", "differential", "axle", "turbo", "supercharger">>

\* make.upper().strip(): the makes of the model carry no surrounding blanks
get_warranty_terms(make) ==
    IF Upper(make) \in DOMAIN MANUFACTURER_WARRANTIES
    THEN MANUFACTURER_WARRANTIES[Upper(make)]
    ELSE STANDARD_WARRANTIES

calculate_vehicle_age(model_year, current_year) == current_year - model_year

is_powertrain_related_always(service_request) == TRUE
is_powertrain_related(service_request) ==
    IF service_request = "" THEN FALSE
    ELSE ContainsAny(Lower(service_request), POWERTRAIN_COMPONENTS)

\* Lines 209-211: the extended notice of Hyundai, Kia and Genesis
ExtendedAppliesAtAnyAge(make, vehicle_age, mileage) ==
    Upper(make) \in {"HYUNDAI", "KIA", "GENESIS"}
ExtendedApplies(make, vehicle_age, mileage) ==
    /\ Upper(make) \in {"HYUNDAI", "KIA", "GENESIS"}
    /\ vehicle_age < 10 /\ mileage < 100000

\* The call with a decoded year and make.
WarrantyStatus(year, make, mileage, service_request, current_year) ==
    LET vehicle_age == calculate_vehicle_age(year, current_year)
        warranty_terms == get_warranty_terms(make)
        btb == warranty_terms.bumper_to_bumper
        pwr == warranty_terms.powertrain
        is_powertrain == is_powertrain_related(service_request)
        under_btb == vehicle_age < btb.years /\ mileage < btb.miles
        under_pwr == vehicle_age < pwr.years /\ mileage < pwr.miles
        extended == ExtendedApplies(make, vehicle_age, mileage)
        alerts ==
            (IF under_btb THEN <<[level |-> "WARNING", type |-> "Bumper-to-Bumper"]>> ELSE <<>>)
            \o (IF under_pwr
                THEN <<[level |-> IF is_powertrain THEN "WARNING" ELSE "INFO",
                        type |-> "Powertrain"]>>
                ELSE <<>>)
            \o (IF extended THEN <<[level |-> "WARNING", type |-> "Extended Powertrain"]>>
                ELSE <<>>)
        likely == under_btb \/ (under_pwr /\ is_powertrain)
    IN  [success |-> TRUE,
         vehicle_age_years |-> vehicle_age,
         mileage |-> mileage,
         alerts |-> alerts,
         likely_under_warranty |-> likely,
         flag |-> IF likely
                  THEN Some([type |-> "WARNING",
                             title |-> "WARRANTY ALERT",
                             options |-> <<"Proceed Anyway", "Refer to Dealer">>])
                  ELSE None]

\* year and make are Optional in the decoder's result: `current_year - None`
\* raises TypeError, `None.upper()` raises AttributeError.
check_warranty_status(year, make, mileage, service_request, current_year) ==
    IF IsNone(year)
    THEN [raised |-> TRUE, error |-> "unsupported operand type(s) for -: 'int' and 'NoneType'"]
    ELSE IF IsNone(make)
    THEN [raised |-> TRUE, error |-> "'NoneType' object has no attribute 'upper'"]
    ELSE [raised |-> FALSE,
          value |-> WarrantyStatus(Get(year), Get(make), mileage, service_request, current_year)]

-----------------------------------------------------------------------------
(* part_condition_service.py *)

REMAN_KEYWORDS ==
    <<"REMAN", "RMN", "REBUILT", "REFURB", "REFURBISHED", "CORE CHARGE", "EXCHANGE",
      "RECO", "RECONDITIONED", "REMANUFACTURED", "RMFD", "RFB">>

NEW_KEYWORDS ==
    <<"100% NEW", "BRAND NEW", "NEW OEM", "NEW AFTERMARKET", "FACTORY NEW", "GENUINE NEW">>

FirstMatch(text, keywords) ==
    keywords[CHOOSE i \in 1..Len(keywords) :
                /\ Contains(text, keywords[i])
                /\ \A j \in 1..(i - 1) : ~Contains(text, keywords[j])]

UnknownCondition ==
    [condition |-> "UNKNOWN", confidence |-> "LOW", matched_keyword |-> None,
     requires_manual_selection |-> TRUE, flag_color |-> Some("YELLOW")]

detect_part_condition_new_first(description) ==
    IF description = "" THEN UnknownCondition
    ELSE LET desc_upper == Upper(description)
         IN  IF ContainsAny(desc_upper, NEW_KEYWORDS)
             THEN [condition |-> "NEW", confidence |-> "HIGH",
                   matched_keyword |-> Some(FirstMatch(desc_upper, NEW_KEYWORDS)),
                   requires_manual_selection |-> FALSE, flag_color |-> None]
             ELSE IF ContainsAny(desc_upper, REMAN_KEYWORDS)
             THEN [condition |-> "REMANUFACTURED", confidence |-> "HIGH",
                   matched_keyword |-> Some(FirstMatch(desc_upper, REMAN_KEYWORDS)),
                   requires_manual_selection |-> FALSE, flag_color |-> None]
             ELSE IF Contains(desc_upper, "NEW")
             THEN [condition |-> "NEW", confidence |-> "MEDIUM",
                   matched_keyword |-> Some("NEW"),
                   requires_manual_selection |-> FALSE, flag_color |-> None]
             ELSE UnknownCondition

detect_part_condition(description) ==
    IF description = "" THEN UnknownCondition
    ELSE LET desc_upper == Upper(description)
         IN  IF ContainsAny(desc_upper, REMAN_KEYWORDS)
             THEN [condition |-> "REMANUFACTURED", confidence |-> "HIGH",
                   matched_keyword |-> Some(FirstMatch(desc_upper, REMAN_KEYWORDS)),
                   requires_manual_selection |-> FALSE, flag_color |-> None]
             ELSE IF ContainsAny(desc_upper, NEW_KEYWORDS)
             THEN [condition |-> "NEW", confidence |-> "HIGH",
                   matched_keyword |-> Some(FirstMatch(desc_upper, NEW_KEYWORDS)),
                   requires_manual_selection |-> FALSE, flag_color |-> None]
             ELSE IF Contains(desc_upper, "NEW")
             THEN [condition |-> "NEW", confidence |-> "MEDIUM",
                   matched_keyword |-> Some("NEW"),
                   requires_manual_selection |-> FALSE, flag_color |-> None]
             ELSE UnknownCondition

\* parts: a sequence of [description, manufacturer, partNumber]
process_parts_list(parts) ==
    LET results == [i \in 1..Len(parts) |->
                       detect_part_condition(parts[i].description \o " " \o parts[i].manufacturer)]
        requires_review ==
            Cardinality({i \in 1..Len(parts) : results[i].requires_manual_selection})
    IN  [success |-> TRUE,
         parts |-> [i \in 1..Len(parts) |->
                       [partNumber |-> parts[i].partNumber, condition |-> results[i]]],
         summary |-> [total_parts |-> Len(parts),
                      auto_detected |-> Len(parts) - requires_review,
                      requires_review |-> requires_review],
         has_unknown_conditions |-> requires_review > 0,
         flag |-> IF requires_review > 0
                  THEN Some([type |-> "YELLOW",
                             title |-> "MANUAL SELECTION REQUIRED",
                             requires_review |-> requires_review])
                  ELSE None]

-----------------------------------------------------------------------------
(* addon_service.py *)

ADD_ON_RULES ==
    <<
     [rule_name |-> "plenum_removal",
      keywords |-> <<"plenum removal", "intake manifold removal", "remove plenum", "remove intake manifold">>,
      add_items |->
        <<[part_name |-> "Intake Plenum Gasket", part_number |-> "PLN-GSK-001", category |-> "gaskets", price |-> 2499, reason |-> "Plenum must be resealed after removal"],
          [part_name |-> "Intake Manifold Gasket Set", part_number |-> "INT-GSK-SET", category |-> "gaskets", price |-> 3499, reason |-> "Required for manifold reassembly"]>>],
     [rule_name |-> "valve_cover",
      keywords |-> <<"valve cover", "remove valve cover", "valve cover gasket">>,
      add_items |->
        <<[part_name |-> "Valve Cover Gasket", part_number |-> "VC-GSK-001", category |-> "gaskets", price |-> 2899, reason |-> "Always replace when removing valve cover"],
          [part_name |-> "Spark Plug Tube Seals", part_number |-> "SP-SEAL-SET", category |-> "seals", price |-> 1899, reason |-> "Prevents oil leaks into spark plug wells"]>>],
     [rule_name |-> "brake_service",
      keywords |-> <<"brake pad", "brake service", "brake rotor", "brake caliper", "replace pads">>,
      add_items |->
        <<[part_name |-> "Brake Cleaner", part_number |-> "BC-CLN-001", category |-> "consumables", price |-> 899, reason |-> "Required for proper brake pad installation"],
          [part_name |-> "Anti-Seize Compound", part_number |-> "AS-CMP-001", category |-> "consumables", price |-> 1299, reason |-> "Prevents caliper slide pin seizure"],
          [part_name |-> "Brake Hardware Kit", part_number |-> "BRK-HW-KIT", category |-> "hardware", price |-> 1599, reason |-> "Includes clips and springs for proper operation"]>>],
     [rule_name |-> "coolant_system",
      keywords |-> <<"coolant flush", "radiator flush", "thermostat", "water pump", "coolant leak">>,
      add_items |->
        <<[part_name |-> "Coolant/Antifreeze (1 gal)", part_number |-> "CLT-AF-001", category |-> "fluids", price |-> 2499, reason |-> "System refill after service"],
          [part_name |-> "Radiator Cap", part_number |-> "RAD-CAP-001", category |-> "parts", price |-> 1299, reason |-> "Inspect/replace when servicing cooling system"],
          [part_name |-> "Thermostat Gasket", part_number |-> "THM-GSK-001", category |-> "gaskets", price |-> 899, reason |-> "Required when replacing thermostat"]>>],
     [rule_name |-> "oil_change",
      keywords |-> <<"oil change", "engine oil", "oil filter">>,
      add_items |->
        <<[part_name |-> "Drain Plug Gasket", part_number |-> "DRN-GSK-001", category |-> "gaskets", price |-> 299, reason |-> "Replace every oil change to prevent leaks"]>>],
     [rule_name |-> "timing_belt",
      keywords |-> <<"timing belt", "timing chain", "timing tensioner">>,
      add_items |->
        <<[part_name |-> "Timing Belt Tensioner", part_number |-> "TM-TNS-001", category |-> "parts", price |-> 8999, reason |-> "Always replace with timing belt"],
          [part_name |-> "Timing Belt Idler Pulley", part_number |-> "TM-IDL-001", category |-> "parts", price |-> 3499, reason |-> "Wear item - replace with belt"],
          [part_name |-> "Water Pump", part_number |-> "WP-001", category |-> "parts", price |-> 7999, reason |-> "Recommended replacement - already accessible"]>>],
     [rule_name |-> "transmission_service",
      keywords |-> <<"transmission fluid", "trans flush", "transmission service", "atf">>,
      add_items |->
        <<[part_name |-> "Transmission Filter Kit", part_number |-> "TRS-FLT-KIT", category |-> "filters", price |-> 4599, reason |-> "Replace filter when servicing transmission"],
          [part_name |-> "Transmission Pan Gasket", part_number |-> "TRS-PAN-GSK", category |-> "gaskets", price |-> 1899, reason |-> "Replace when removing pan"]>>],
     [rule_name |-> "exhaust_work",
      keywords |-> <<"exhaust", "catalytic converter", "muffler", "exhaust manifold">>,
      add_items |->
        <<[part_name |-> "Exhaust Gasket", part_number |-> "EXH-GSK-001", category |-> "gaskets", price |-> 1499, reason |-> "Required for exhaust connections"],
          [part_name |-> "Exhaust Bolts/Studs Kit", part_number |-> "EXH-HW-KIT", category |-> "hardware", price |-> 2299, reason |-> "Often corroded and break during removal"]>>],
     [rule_name |-> "suspension",
      keywords |-> <<"strut", "shock", "control arm", "ball joint", "tie rod">>,
      add_items |->
        <<[part_name |-> "Alignment Service", part_number |-> "SVC-ALIGN", category |-> "labor", price |-> 8999, reason |-> "Required after suspension work"]>>],
     [rule_name |-> "ac_service",
      keywords |-> <<"ac", "a/c", "air conditioning", "compressor", "condenser", "evaporator">>,
      add_items |->
        <<[part_name |-> "R-134a Refrigerant", part_number |-> "AC-R134A", category |-> "fluids", price |-> 4599, reason |-> "System recharge after repair"],
          [part_name |-> "AC O-Ring Kit", part_number |-> "AC-ORING-KIT", category |-> "seals", price |-> 1899, reason |-> "Replace seals to prevent leaks"],
          [part_name |-> "PAG Oil", part_number |-> "AC-PAG-OIL", category |-> "fluids", price |-> 2299, reason |-> "Required for compressor lubrication"]>>]
    >>

RECURSIVE JoinWithBlank(_)
JoinWithBlank(texts) ==
    IF Len(texts) = 0 THEN ""
    ELSE IF Len(texts) = 1 THEN texts[1]
    ELSE texts[1] \o " " \o JoinWithBlank(Tail(texts))

\* keyword.lower(), for every keyword of every rule
LoweredKeywords ==
    [r \in 1..Len(ADD_ON_RULES) |->
        [k \in 1..Len(ADD_ON_RULES[r].keywords) |-> Lower(ADD_ON_RULES[r].keywords[k])]]

\* keyword.lower() in search_text, for any keyword of rule r
RuleFires(r, search_text) == ContainsAny(search_text, LoweredKeywords[r])

HasPartNumber(addons, part_number) ==
    \E i \in 1..Len(addons) : addons[i].part_number = part_number

RECURSIVE AddItems(_, _, _)
AddItems(detected, rule, i) ==
    IF i > Len(rule.add_items) THEN detected
    ELSE LET item == rule.add_items[i]
             addon == [part_name |-> item.part_name, part_number |-> item.part_number,
                       category |-> item.category, price |-> item.price, quantity |-> 1,
                       reason |-> item.reason, rule_name |-> rule.rule_name]
         IN  AddItems(IF HasPartNumber(detected, addon.part_number) THEN detected
                      ELSE Append(detected, addon),
                      rule, i + 1)

RECURSIVE AppendItems(_, _, _)
AppendItems(detected, rule, times) ==
    IF times = 0 THEN detected
    ELSE AppendItems(detected \o [i \in 1..Len(rule.add_items) |->
                                     [part_name |-> rule.add_items[i].part_name,
                                      part_number |-> rule.add_items[i].part_number,
                                      category |-> rule.add_items[i].category,
                                      price |-> rule.add_items[i].price, quantity |-> 1,
                                      reason |-> rule.add_items[i].reason,
                                      rule_name |-> rule.rule_name]],
                     rule, times - 1)

RECURSIVE DetectFromEveryKeyword(_, _, _)
DetectFromEveryKeyword(detected, search_text, r) ==
    IF r > Len(ADD_ON_RULES) THEN detected
    ELSE DetectFromEveryKeyword(
             AppendItems(detected, ADD_ON_RULES[r],
                         Cardinality({k \in 1..Len(LoweredKeywords[r]) :
                                         Contains(search_text, LoweredKeywords[r][k])})),
             search_text, r + 1)

RECURSIVE DetectFrom(_, _, _)
DetectFrom(detected, search_text, r) ==
    IF r > Len(ADD_ON_RULES) THEN detected
    ELSE DetectFrom(IF RuleFires(r, search_text)
                    THEN AddItems(detected, ADD_ON_RULES[r], 1)
                    ELSE detected,
                    search_text, r + 1)

detect_addons(service_request, labor_procedures) ==
    LET search_text == IF Len(labor_procedures) > 0
                       THEN Lower(service_request) \o " " \o Lower(JoinWithBlank(labor_procedures))
                       ELSE Lower(service_request)
        detected_addons == DetectFrom(<<>>, search_text, 1)
    IN  [success |-> TRUE,
         matched_rules |-> {ADD_ON_RULES[r].rule_name :
                               r \in {q \in 1..Len(ADD_ON_RULES) : RuleFires(q, search_text)}},
         addon_count |-> Len(detected_addons),
         addons |-> detected_addons,
         total_price |-> SumSeq([i \in 1..Len(detected_addons) |->
                                    detected_addons[i].price * detected_addons[i].quantity])]

-----------------------------------------------------------------------------
(* vendor_service.py *)
(* Prices are cents and distances whole miles.  The float scores are kept  *)
(* as exact fractions [n, d] until the code rounds them to one decimal;    *)
(* a rounded score is an integer number of tenths.                         *)

BrandTier ==
    [OEM |-> 10, PREMIUM |-> 9, OE_EQUIVALENT |-> 8, STANDARD |-> 6, ECONOMY |-> 4, UNKNOWN |-> 5]

VendorWeights == [brand |-> 40, price |-> 35, distance |-> 25]

max_distance_miles == 50

RECURSIVE GCD(_, _)
GCD(a, b) == IF b = 0 THEN a ELSE GCD(b, a % b)

\* the fraction n/d in lowest terms, d > 0
Frac(n, d) ==
    LET g == GCD(IF n < 0 THEN -n ELSE n, d)
    IN  [n |-> n \div g, d |-> d \div g]

SetMax(S) == CHOOSE x \in S : \A y \in S : y <= x
SetMin(S) == CHOOSE x \in S : \A y \in S : x <= y

\* round(n/d, 1) in tenths, d > 0: to nearest, a tie to the even tenth
Round1(f) ==
    LET q == (10 * f.n) \div f.d
        r == (10 * f.n) - q * f.d
    IN  IF 2 * r > f.d THEN q + 1
        ELSE IF 2 * r = f.d THEN q + (q % 2)
        ELSE q

get_brand_tier(brand_name, description) ==
    LET brand_upper == Upper(brand_name)
        desc_upper == Upper(description)
    IN  IF \E ind \in {"OEM", "GENUINE", "ORIGINAL"} :
               Contains(brand_upper, ind) \/ Contains(desc_upper, ind)
        THEN "OEM"
        ELSE IF ContainsAny(brand_upper,
                    <<"BREMBO", "AKEBONO", "BOSCH", "DENSO", "NGK", "BILSTEIN",
                      "LEMFORDER", "SACHS", "CONTINENTAL", "HELLA", "VALEO">>)
        THEN "PREMIUM"
        ELSE IF ContainsAny(brand_upper,
                    <<"ATE", "MOOG", "CENTRIC", "WAGNER", "BENDIX", "RAYBESTOS",
                      "MOTORCRAFT", "ACDelco", "MANN", "MAHLE">>)
        THEN "OE_EQUIVALENT"
        ELSE IF ContainsAny(brand_upper, <<"ECONOMY", "VALUE", "BUDGET", "GENERIC">>)
        THEN "ECONOMY"
        ELSE "STANDARD"

PriceScoreDirect(offer, all_offers) ==
    LET prices == {all_offers[i].price : i \in {j \in 1..Len(all_offers) : all_offers[j].price > 0}}
    IN  IF prices = {} THEN Frac(5, 1)
        ELSE LET max_price == SetMax(prices)
                 min_price == SetMin(prices)
             IN  IF max_price # min_price
                 THEN Frac(10 * (offer.price - min_price), max_price - min_price)
                 ELSE Frac(10, 1)
PriceScore(offer, all_offers) ==
    LET prices == {all_offers[i].price : i \in {j \in 1..Len(all_offers) : all_offers[j].price > 0}}
    IN  IF prices = {} THEN Frac(5, 1)
        ELSE LET max_price == SetMax(prices)
                 min_price == SetMin(prices)
             IN  IF max_price # min_price
                 THEN Frac(10 * (max_price - min_price) - 10 * (offer.price - min_price),
                           max_price - min_price)
                 ELSE Frac(10, 1)

DistanceScore(offer) ==
    LET raw == 10 * max_distance_miles - 10 * offer.warehouse_distance_miles
    IN  Frac(IF raw < 0 THEN 0 ELSE raw, max_distance_miles)

\* weights.brand + weights.price + weights.distance must not be 0
calculate_vendor_score(offer, all_offers, weights) ==
    LET total_weight == weights.brand + weights.price + weights.distance
        brand_score == BrandTier[offer.brand_tier]
        price_score == PriceScore(offer, all_offers)
        distance_score == DistanceScore(offer)
        \* (b*nb + p*np + d*nd) / 10 with nX = wX / total_weight * 100
        composite_score ==
            Frac(10 * (brand_score * weights.brand * price_score.d * distance_score.d
                       + price_score.n * weights.price * distance_score.d
                       + distance_score.n * weights.distance * price_score.d),
                 total_weight * price_score.d * distance_score.d)
    IN  [offer |-> offer,
         brand_score |-> 10 * brand_score,
         price_score |-> Round1(price_score),
         distance_score |-> Round1(distance_score),
         composite_score |-> Round1(composite_score),
         selection |-> ""]

\* list.sort(key=composite_score, reverse=True) keeps equal scores in input order
RECURSIVE InsertBeforeTies(_, _)
InsertBeforeTies(sorted, so) ==
    IF Len(sorted) = 0 THEN <<so>>
    ELSE IF Head(sorted).composite_score > so.composite_score
    THEN <<Head(sorted)>> \o InsertBeforeTies(Tail(sorted), so)
    ELSE <<so>> \o sorted

RECURSIVE InsertByScore(_, _)
InsertByScore(sorted, so) ==
    IF Len(sorted) = 0 THEN <<so>>
    ELSE IF Head(sorted).composite_score >= so.composite_score
    THEN <<Head(sorted)>> \o InsertByScore(Tail(sorted), so)
    ELSE <<so>> \o sorted

RECURSIVE SortByScore(_, _)
SortByScore(sorted, rest) ==
    IF Len(rest) = 0 THEN sorted
    ELSE SortByScore(InsertByScore(sorted, Head(rest)), Tail(rest))

MarkSelectionRestBackup(scored_offers) ==
    [i \in 1..Len(scored_offers) |->
        [scored_offers[i] EXCEPT !.selection = IF i = 1 THEN "Primary" ELSE "Backup"]]
MarkSelection(scored_offers) ==
    [i \in 1..Len(scored_offers) |->
        [scored_offers[i] EXCEPT !.selection =
            IF i = 1 THEN "Primary" ELSE IF i = 2 THEN "Backup" ELSE @]]

score_and_rank_offers(offers, weights) ==
    IF Len(offers) = 0 THEN <<>>
    ELSE MarkSelection(SortByScore(<<>>,
            [i \in 1..Len(offers) |-> calculate_vendor_score(offers[i], offers, weights)]))

create_mock_vendor_offers(part_number, part_description) ==
    <<[vendor_id |-> "worldpac_001", vendor_name |-> "Worldpac", brand |-> "Bosch",
       brand_tier |-> get_brand_tier("Bosch", ""), part_number |-> part_number,
       price |-> 11500, warehouse_distance_miles |-> 12],
      [vendor_id |-> "worldpac_002", vendor_name |-> "Worldpac", brand |-> "Brembo",
       brand_tier |-> get_brand_tier("Brembo", ""), part_number |-> part_number,
       price |-> 13500, warehouse_distance_miles |-> 12],
      [vendor_id |-> "ssf_001", vendor_name |-> "SSF", brand |-> "Akebono",
       brand_tier |-> get_brand_tier("Akebono", ""), part_number |-> part_number,
       price |-> 12500, warehouse_distance_miles |-> 25],
      [vendor_id |-> "ssf_002", vendor_name |-> "SSF", brand |-> "ATE",
       brand_tier |-> get_brand_tier("ATE", ""), part_number |-> part_number,
       price |-> 11000, warehouse_distance_miles |-> 35]>>

SelectionSummary(scored_offers, selection) ==
    LET hits == SelectSeq(scored_offers, LAMBDA so : so.selection = selection)
    IN  IF Len(hits) = 0 THEN None
        ELSE Some([vendor |-> hits[1].offer.vendor_name, brand |-> hits[1].offer.brand,
                   price |-> hits[1].offer.price, score |-> hits[1].composite_score])

\* zip(part_numbers, part_descriptions) stops at the shorter list
ComparePart(part_num, part_desc, weights) ==
    LET scored_offers == score_and_rank_offers(create_mock_vendor_offers(part_num, part_desc),
                                               weights)
    IN  [part_number |-> part_num,
         description |-> part_desc,
         offers |-> [i \in 1..Len(scored_offers) |->
                        [vendor_id |-> scored_offers[i].offer.vendor_id,
                         price |-> scored_offers[i].offer.price,
                         composite |-> scored_offers[i].composite_score,
                         selection |-> scored_offers[i].selection]],
         primary |-> SelectionSummary(scored_offers, "Primary"),
         backup |-> SelectionSummary(scored_offers, "Backup")]

compare_vendors(part_numbers, part_descriptions, weights) ==
    LET pairs == IF Len(part_numbers) < Len(part_descriptions)
                 THEN Len(part_numbers) ELSE Len(part_descriptions)
    IN  IF pairs > 0 /\ weights.brand + weights.price + weights.distance = 0
        THEN [raised |-> TRUE, error |-> "division by zero"]
        ELSE [raised |-> FALSE,
              value |-> [success |-> TRUE,
                         weights |-> weights,
                         parts |-> [i \in 1..pairs |->
                                       ComparePart(part_numbers[i], part_descriptions[i], weights)],
                         summary |-> [total_parts |-> Len(part_numbers)]]]

-----------------------------------------------------------------------------
(* auto_generate_service.py: generate_estimate                             *)
(* One action per step of the workflow (the steps are separated by the     *)
(* awaits on the collaborators) and one for the final assembly.  A call on *)
(* a collaborator either behaves as that service's code does or lets an    *)
(* exception escape, whose str() is g_env.fault.                           *)

detect_job_type(service_request) ==
    LET request_lower == Lower(service_request)
    IN  IF ContainsAny(request_lower, <<"brake", "pad", "rotor", "caliper">>)
        THEN "brake_service"
        ELSE IF ContainsAny(request_lower, <<"engine", "motor", "oil", "gasket">>)
        THEN "engine_repair"
        ELSE IF ContainsAny(request_lower, <<"ac", "air condition", "a/c", "compressor", "freon">>)
        THEN "ac_service"
        ELSE "general"

\* What a call on a collaborator does
Raised(error) == [raised |-> TRUE, error |-> error]
Returned(value) == [raised |-> FALSE, value |-> value]

\* The step records stored in result["steps"]
Failed(error) == [success |-> FALSE, error |-> error]
Succeeded(data) == [success |-> TRUE, data |-> data]

SetStep(res, name, record) == [res EXCEPT !.steps = (name :> record) @@ @]
AddError(res, error) == [res EXCEPT !.errors = Append(@, error)]
AddFlagsInFront(res, new_flags) == [res EXCEPT !.flags = new_flags \o @]
AddFlags(res, new_flags) == [res EXCEPT !.flags = @ \o new_flags]

\* `if x.get("flag"):` -- the flag a service result carries, if any
FlagOf(service_result) ==
    IF "flag" \in DOMAIN service_result /\ ~IsNone(service_result.flag)
    THEN <<Get(service_result.flag)>>
    ELSE <<>>

Call(step, outcome) ==
    [step |-> step, raised |-> outcome.raised,
     error |-> IF outcome.raised THEN outcome.error ELSE ""]

StepIndex(step) == CHOOSE i \in 1..Len(StepNames) : StepNames[i] = step

NextStep(step) ==
    IF StepIndex(step) = Len(StepNames) THEN "build_response"
    ELSE StepNames[StepIndex(step) + 1]

\* Every except block records the failure and falls through to the next step.
AbortOnRaise(step) == "raised"
AfterRaise(step) == NextStep(step)

After(step, outcome) == IF outcome.raised THEN AfterRaise(step) ELSE NextStep(step)

(* The requests and the collaborators' answers *)

ServiceRequests == {"Replace brake pads", "engine oil change", "tire rotation"}

\* the request's Optional odometer, and `request.odometer or 0`
RequestOdometers == {None, Some(0), Some(20000)}
OdometerOrZero(odometer) == IF IsNone(odometer) THEN 0 ELSE Get(odometer)

VendorWeightArgs == {None, Some([brand |-> 0, price |-> 0, distance |-> 0])}

Customers == {[name |-> "Pat Doe", phone |-> "5550100000", email |-> ""]}

GenerateArgs ==
    {[service_request |-> service_request,
      request_odometer |-> request_odometer,
      odometer |-> OdometerOrZero(request_odometer),
      labor_rate |-> 15000,
      parts_markup |-> 30,
      tax_rate |-> 925,
      vendor_weights |-> vendor_weights,
      customer |-> customer] :
        service_request \in ServiceRequests, request_odometer \in RequestOdometers,
        vendor_weights \in VendorWeightArgs, customer \in Customers}

FaultMessages == {"connection timeout", "Could not find VIN input"}

Environments == [fault : FaultMessages, current_year : {2026}]

DecodedVehicles ==
    {[vin |-> "5XYPG4A36GG000001", year |-> Some(2025), make |-> Some("Kia"),
      model |-> Some("Sorento")],
     [vin |-> "5XYPG4A36GG000001", year |-> None, make |-> None, model |-> None]}

RecallFetches ==
    {[kind |-> "ok",
      recalls |-> <<[campaign_number |-> "23V777", component |-> "AIR BAGS",
                     summary |-> "Inflator may rupture"],
                    [campaign_number |-> "24V001", component |-> "SERVICE BRAKES, HYDRAULIC",
                     summary |-> "Fluid may leak"],
                    [campaign_number |-> "24V002", component |-> "ELECTRONIC STABILITY CONTROL",
                     summary |-> "ABS module may lose power"]>>],
     [kind |-> "ok", recalls |-> <<>>],
     [kind |-> "http_error", recalls |-> <<>>],
     [kind |-> "network_error", recalls |-> <<>>]}

LaborTimes ==
    {None,
     Some([jobDescription |-> "Brake Pad Replacement", laborHours |-> 150,
           source |-> "ALLDATA", category |-> "Brakes", difficulty |-> "Moderate"])}

PartsLists ==
    {<<>>,
     <<[partNumber |-> "45022-SDA-A00", description |-> "Brake Pad Set - Front",
        manufacturer |-> Some("Honda"), price |-> Some(8533), isOEM |-> TRUE,
        category |-> Some("Brakes")]>>,
     <<[partNumber |-> "", description |-> "Brake Hardware", manufacturer |-> None,
        price |-> None, isOEM |-> FALSE, category |-> None],
       [partNumber |-> "MANUAL-LOOKUP", description |-> "Reman Caliper",
        manufacturer |-> Some("Unknown"), price |-> Some(0), isOEM |-> TRUE,
        category |-> Some("Needs Manual Lookup")]>>}

Init ==
    /\ CalcIdle
    /\ ConfIdle
    /\ SvcIdle
    /\ ApprIdle
    /\ g_args \in GenerateArgs
    /\ g_env \in Environments
    /\ g_pc = "vehicle_decode"
    /\ g_vehicle_info = None
    /\ g_labor_items = <<>>
    /\ g_job_type = "general"
    /\ g_parts_results = <<>>
    /\ g_parts_items = <<>>
    /\ g_result = [success |-> TRUE, steps |-> <<>>, flags |-> <<>>, errors |-> <<>>,
                   customer |-> g_args.customer]
    /\ g_trace = <<>>

\* STEP 1: Decode VIN
VehicleDecode ==
    /\ g_pc = "vehicle_decode"
    /\ \E outcome \in {Raised(g_env.fault)} \cup {Returned(v) : v \in DecodedVehicles} :
          /\ g_vehicle_info' = IF outcome.raised THEN None ELSE Some(outcome.value)
          /\ g_result' =
                IF outcome.raised
                THEN AddError(SetStep(g_result, "vehicle_decode", Failed(outcome.error)),
                              "VIN Decode failed: " \o outcome.error)
                ELSE SetStep(g_result, "vehicle_decode", Succeeded(outcome.value))
          /\ g_trace' = Append(g_trace, Call("vehicle_decode", outcome))
          /\ g_pc' = After("vehicle_decode", outcome)
    /\ UNCHANGED <<g_args, g_env, g_labor_items, g_job_type, g_parts_results, g_parts_items>>
    /\ UNCHANGED <<calcVars, confVars, svcVars, apprVars>>

\* The ways the call on check_recalls can end: an exception escapes it, or the
\* NHTSA request ends as one of RecallFetches and check_recalls returns.
RecallCalls ==
    {[outcome |-> Raised(g_env.fault), fetch |-> "not_made"]}
    \cup {[outcome |-> Returned(check_recalls(f, g_args.service_request)), fetch |-> f.kind] :
             f \in RecallFetches}

\* the recall step's entry of the trace, with how the NHTSA request ended
RecallCall(outcome, fetch) ==
    [step |-> "recall_check", raised |-> outcome.raised,
     error |-> IF outcome.raised THEN outcome.error ELSE "", fetch |-> fetch]

\* STEP 2: NHTSA Recall Check
RecallCheck ==
    /\ g_pc = "recall_check"
    /\ \E call \in RecallCalls :
        LET outcome == call.outcome
        IN
          /\ g_result' =
                IF outcome.raised
                THEN SetStep(g_result, "recall_check", Failed(outcome.error))
                ELSE LET recall_result == outcome.value
                     IN  AddFlags(SetStep(g_result, "recall_check",
                                          [success |-> recall_result.success,
                                           data |-> recall_result]),
                                  IF recall_result.has_matching_recall
                                  THEN <<Get(recall_result.flag)>> ELSE <<>>)
          /\ g_trace' = Append(g_trace, RecallCall(outcome, call.fetch))
          /\ g_pc' = After("recall_check", outcome)
    /\ UNCHANGED <<g_args, g_env, g_vehicle_info, g_labor_items, g_job_type,
                   g_parts_results, g_parts_items>>
    /\ UNCHANGED <<calcVars, confVars, svcVars, apprVars>>

\* `if vehicle_info and odometer > 0:`
WarrantyCalledOnVehicle(vehicle_info, odometer) == ~IsNone(vehicle_info)
WarrantyCalled(vehicle_info, odometer) == ~IsNone(vehicle_info) /\ odometer > 0

\* STEP 3: Warranty Math Check
WarrantyCheck ==
    /\ g_pc = "warranty_check"
    /\ LET called == WarrantyCalled(g_vehicle_info, g_args.odometer)
           outcomes ==
               IF called
               THEN {Raised(g_env.fault),
                     check_warranty_status(Get(g_vehicle_info).year, Get(g_vehicle_info).make,
                                           g_args.odometer, g_args.service_request,
                                           g_env.current_year)}
               ELSE {Returned([skipped |-> TRUE, reason |-> "No odometer provided"])}
       IN  \E outcome \in outcomes :
              /\ g_result' =
                    IF outcome.raised
                    THEN SetStep(g_result, "warranty_check", Failed(outcome.error))
                    ELSE AddFlags(SetStep(g_result, "warranty_check",
                                          [success |-> IF called THEN outcome.value.success
                                                       ELSE TRUE,
                                           data |-> outcome.value]),
                                  IF called THEN FlagOf(outcome.value) ELSE <<>>)
              /\ g_trace' = Append(g_trace, Call("warranty_check", outcome))
              /\ g_pc' = After("warranty_check", outcome)
    /\ UNCHANGED <<g_args, g_env, g_vehicle_info, g_labor_items, g_job_type,
                   g_parts_results, g_parts_items>>
    /\ UNCHANGED <<calcVars, confVars, svcVars, apprVars>>

\* STEP 4: Lookup Labor Times
LaborLookup ==
    /\ g_pc = "labor_lookup"
    /\ \E outcome \in {Raised(g_env.fault)} \cup {Returned(l) : l \in LaborTimes} :
          /\ IF outcome.raised
             THEN /\ g_labor_items' = <<>>
                  /\ g_job_type' = "general"
                  /\ g_result' = AddError(SetStep(g_result, "labor_lookup", Failed(outcome.error)),
                                          "Labor lookup failed: " \o outcome.error)
             ELSE IF IsNone(outcome.value)
             THEN /\ g_labor_items' = <<>>
                  /\ g_job_type' = "general"
                  /\ g_result' = AddError(SetStep(g_result, "labor_lookup",
                                                  Failed("No labor time found")),
                                          "Labor lookup returned no results")
             ELSE LET labor_result == Get(outcome.value)
                      job == detect_job_type(g_args.service_request)
                  IN  /\ g_labor_items' =
                            <<[description |-> labor_result.jobDescription,
                               hours |-> labor_result.laborHours,
                               rate |-> g_args.labor_rate,
                               total |-> Dec(labor_result.laborHours * g_args.labor_rate, 10000)]>>
                      /\ g_job_type' = job
                      /\ g_result' =
                            SetStep(g_result, "labor_lookup",
                                    Succeeded([items |->
                                        <<[description |-> labor_result.jobDescription,
                                           hours |-> labor_result.laborHours,
                                           rate |-> g_args.labor_rate,
                                           source |-> labor_result.source,
                                           category |-> labor_result.category,
                                           difficulty |-> labor_result.difficulty,
                                           job_type |-> job]>>]))
          /\ g_trace' = Append(g_trace, Call("labor_lookup", outcome))
          /\ g_pc' = After("labor_lookup", outcome)
    /\ UNCHANGED <<g_args, g_env, g_vehicle_info, g_parts_results, g_parts_items>>
    /\ UNCHANGED <<calcVars, confVars, svcVars, apprVars>>

\* PartItemSchema built from one search result, quantity Decimal("1")
PartItemFromResult(part, parts_markup) ==
    LET price == IF IsNone(part.price) THEN 0 ELSE Get(part.price)
    IN  [description |-> part.description,
         partNumber |-> part.partNumber,
         quantity |-> 10,
         cost |-> price,
         markup |-> parts_markup,
         total |-> Dec(price * (100 + parts_markup), 10000),
         vendor |-> IF IsNone(part.manufacturer) \/ Get(part.manufacturer) = ""
                    THEN "Unknown" ELSE Get(part.manufacturer)]

\* STEP 5: Search for Parts
PartsSearch ==
    /\ g_pc = "parts_search"
    /\ \E outcome \in {Raised(g_env.fault)} \cup {Returned(p) : p \in PartsLists} :
          /\ IF outcome.raised
             THEN /\ g_parts_results' = <<>>
                  /\ g_parts_items' = <<>>
                  /\ g_result' = AddError(SetStep(g_result, "parts_search", Failed(outcome.error)),
                                          "Parts search failed: " \o outcome.error)
             ELSE LET parts == outcome.value
                  IN  /\ g_parts_results' = parts
                      /\ g_parts_items' =
                            [i \in 1..Len(parts) |->
                                PartItemFromResult(parts[i], g_args.parts_markup)]
                      /\ g_result' =
                            SetStep(g_result, "parts_search",
                                    IF Len(parts) > 0
                                    THEN Succeeded([items |-> parts])
                                    ELSE [success |-> TRUE, data |-> [items |-> <<>>],
                                          warning |-> "No parts found"])
          /\ g_trace' = Append(g_trace, Call("parts_search", outcome))
          /\ g_pc' = After("parts_search", outcome)
    /\ UNCHANGED <<g_args, g_env, g_vehicle_info, g_labor_items, g_job_type>>
    /\ UNCHANGED <<calcVars, confVars, svcVars, apprVars>>

\* Lines 295-308: a part line that still costs 0 takes the price and the
\* vendor of the Primary offer found for its part number.
UpdateFromPrimaryAnyCost(items, vendor_part) ==
    IF IsNone(vendor_part.primary) THEN items
    ELSE LET primary == Get(vendor_part.primary)
         IN  [i \in 1..Len(items) |->
                 IF items[i].partNumber = vendor_part.part_number
                 THEN [items[i] EXCEPT
                          !.cost = primary.price,
                          !.total = Dec(primary.price * (100 + items[i].markup), 10000),
                          !.vendor = primary.vendor]
                 ELSE items[i]]
UpdateFromPrimary(items, vendor_part) ==
    IF IsNone(vendor_part.primary) THEN items
    ELSE LET primary == Get(vendor_part.primary)
         IN  [i \in 1..Len(items) |->
                 IF items[i].partNumber = vendor_part.part_number /\ items[i].cost = 0
                 THEN [items[i] EXCEPT
                          !.cost = primary.price,
                          !.total = Dec(primary.price * (100 + items[i].markup), 10000),
                          !.vendor = primary.vendor]
                 ELSE items[i]]

RECURSIVE UpdateFromVendors(_, _)
UpdateFromVendors(items, vendor_parts) ==
    IF Len(vendor_parts) = 0 THEN items
    ELSE UpdateFromVendors(UpdateFromPrimary(items, Head(vendor_parts)), Tail(vendor_parts))

\* STEP 6: Vendor Comparison & Scoring
VendorCompare ==
    /\ g_pc = "vendor_compare"
    /\ LET called == Len(g_parts_results) > 0
           weights == IF IsNone(g_args.vendor_weights) THEN VendorWeights
                      ELSE Get(g_args.vendor_weights)
           part_numbers ==
               LET with_number == SelectSeq(g_parts_results, LAMBDA p : p.partNumber # "")
               IN  [i \in 1..Len(with_number) |-> with_number[i].partNumber]
           part_descriptions ==
               [i \in 1..Len(g_parts_results) |-> g_parts_results[i].description]
           outcomes ==
               IF called
               THEN {Raised(g_env.fault),
                     compare_vendors(part_numbers, part_descriptions, weights)}
               ELSE {Returned([skipped |-> TRUE, reason |-> "No parts to compare"])}
       IN  \E outcome \in outcomes :
              /\ IF outcome.raised
                 THEN /\ g_result' = SetStep(g_result, "vendor_compare", Failed(outcome.error))
                      /\ g_parts_items' = g_parts_items
                 ELSE /\ g_result' =
                            SetStep(g_result, "vendor_compare",
                                    [success |-> IF called THEN outcome.value.success ELSE TRUE,
                                     data |-> outcome.value])
                      /\ g_parts_items' =
                            IF called THEN UpdateFromVendors(g_parts_items, outcome.value.parts)
                            ELSE g_parts_items
              /\ g_trace' = Append(g_trace, Call("vendor_compare", outcome))
              /\ g_pc' = After("vendor_compare", outcome)
    /\ UNCHANGED <<g_args, g_env, g_vehicle_info, g_labor_items, g_job_type, g_parts_results>>
    /\ UNCHANGED <<calcVars, confVars, svcVars, apprVars>>

\* STEP 7: Part Condition Detection
PartConditions ==
    /\ g_pc = "part_conditions"
    /\ LET called == Len(g_parts_items) > 0
           parts_for_condition ==
               [i \in 1..Len(g_parts_items) |->
                   [description |-> g_parts_items[i].description,
                    manufacturer |-> g_parts_items[i].vendor,
                    partNumber |-> g_parts_items[i].partNumber]]
           outcomes ==
               IF called
               THEN {Raised(g_env.fault), Returned(process_parts_list(parts_for_condition))}
               ELSE {Returned([skipped |-> TRUE, reason |-> "No parts to check"])}
       IN  \E outcome \in outcomes :
              /\ g_result' =
                    IF outcome.raised
                    THEN SetStep(g_result, "part_conditions", Failed(outcome.error))
                    ELSE AddFlags(SetStep(g_result, "part_conditions",
                                          [success |-> IF called THEN outcome.value.success
                                                       ELSE TRUE,
                                           data |-> outcome.value]),
                                  IF called THEN FlagOf(outcome.value) ELSE <<>>)
              /\ g_trace' = Append(g_trace, Call("part_conditions", outcome))
              /\ g_pc' = After("part_conditions", outcome)
    /\ UNCHANGED <<g_args, g_env, g_vehicle_info, g_labor_items, g_job_type,
                   g_parts_results, g_parts_items>>
    /\ UNCHANGED <<calcVars, confVars, svcVars, apprVars>>

\* PartItemSchema built from a detected add-on; the schema declares neither
\* is_oem nor reason_badge and drops them.
PartItemFromAddon(addon) ==
    [description |-> addon.part_name,
     partNumber |-> addon.part_number,
     quantity |-> 10 * addon.quantity,
     cost |-> addon.price,
     markup |-> 0,
     total |-> Dec(addon.price * addon.quantity, 100),
     vendor |-> "Auto-Add"]

AddonFlag(addon) ==
    [type |-> "INFO", severity |-> "low",
     message |-> "Added " \o addon.part_name \o ": " \o addon.reason]

\* STEP 8: Auto Add-On Detection
AddonDetection ==
    /\ g_pc = "addon_detection"
    /\ LET labor_procedures == [i \in 1..Len(g_labor_items) |-> g_labor_items[i].description]
       IN  \E outcome \in {Raised(g_env.fault),
                           Returned(detect_addons(g_args.service_request, labor_procedures))} :
              /\ IF outcome.raised
                 THEN /\ g_result' = SetStep(g_result, "addon_detection", Failed(outcome.error))
                      /\ g_parts_items' = g_parts_items
                 ELSE LET addons == outcome.value.addons
                      IN  /\ g_parts_items' =
                                g_parts_items
                                \o [i \in 1..Len(addons) |-> PartItemFromAddon(addons[i])]
                          /\ g_result' =
                                SetStep(AddFlags(g_result,
                                                 [i \in 1..Len(addons) |-> AddonFlag(addons[i])]),
                                        "addon_detection", Succeeded(outcome.value))
              /\ g_trace' = Append(g_trace, Call("addon_detection", outcome))
              /\ g_pc' = After("addon_detection", outcome)
    /\ UNCHANGED <<g_args, g_env, g_vehicle_info, g_labor_items, g_job_type, g_parts_results>>
    /\ UNCHANGED <<calcVars, confVars, svcVars, apprVars>>

\* The attributes of the breakdown that lines 409-414 read, in that order
CalculationDataFields ==
    <<"laborTotal", "partsTotal", "subtotal", "taxAmount", "cleaningKit", "total">>

\* Reading an attribute the schema does not declare raises AttributeError.
ReadBreakdown(breakdown) ==
    LET missing == {i \in 1..Len(CalculationDataFields) :
                       CalculationDataFields[i] \notin DOMAIN breakdown}
    IN  IF missing = {}
        THEN Returned([f \in {CalculationDataFields[i] : i \in 1..Len(CalculationDataFields)}
                          |-> breakdown[f]])
        ELSE Raised("'CalculationBreakdownSchema' object has no attribute '"
                    \o CalculationDataFields[SetMin(missing)] \o "'")

\* STEP 9: Calculate Totals with Cleaning Kit.  calculate_estimate is
\* arithmetic on validated items and calls no collaborator: the only
\* exception of this step is the one reading the breakdown raises.
Calculation ==
    /\ g_pc = "calculation"
    /\ \E outcome \in {ReadBreakdown(calculate_estimate(g_labor_items, g_parts_items, g_job_type,
                                                        Some(g_args.tax_rate), TRUE))} :
          /\ g_result' =
                IF outcome.raised
                THEN AddError(SetStep(g_result, "calculation", Failed(outcome.error)),
                              "Calculation failed: " \o outcome.error)
                ELSE SetStep(g_result, "calculation", Succeeded(outcome.value))
          /\ g_trace' = Append(g_trace, Call("calculation", outcome))
          /\ g_pc' = After("calculation", outcome)
    /\ UNCHANGED <<g_args, g_env, g_vehicle_info, g_labor_items, g_job_type,
                   g_parts_results, g_parts_items>>
    /\ UNCHANGED <<calcVars, confVars, svcVars, apprVars>>

\* result["steps"].get(name, {}).get("data", {}); {} is <<>>
StepData(steps, name) ==
    IF name \in DOMAIN steps /\ "data" \in DOMAIN steps[name]
    THEN Some(steps[name].data)
    ELSE <<>>

\* `"VIN" in e or "Labor" in e`
IsCriticalError(e) == Contains(e, "VIN") \/ Contains(e, "Labor")

\* BUILD FINAL RESPONSE, confidence score and overall success
BuildFinalResponse ==
    /\ g_pc = "build_response"
    /\ LET steps == g_result.steps
           estimate_data ==
               [vehicleInfo |-> StepData(steps, "vehicle_decode"),
                laborItems |-> [i \in 1..Len(g_labor_items) |->
                                   [description |-> g_labor_items[i].description,
                                    hours |-> g_labor_items[i].hours,
                                    rate |-> g_labor_items[i].rate,
                                    total |-> g_labor_items[i].total]],
                partsItems |-> g_parts_items,
                vendorComparison |-> StepData(steps, "vendor_compare"),
                partConditions |-> StepData(steps, "part_conditions"),
                breakdown |-> StepData(steps, "calculation"),
                recallCheck |-> StepData(steps, "recall_check"),
                warrantyCheck |-> StepData(steps, "warranty_check")]
           critical_errors == SelectSeq(g_result.errors, IsCriticalError)
       IN  g_result' =
              [success |-> Len(critical_errors) = 0,
               steps |-> steps,
               flags |-> g_result.flags,
               errors |-> g_result.errors,
               customer |-> g_result.customer,
               estimate_data |-> estimate_data,
               confidence_score |-> calculate_confidence_score(steps, g_result.flags)]
    /\ g_pc' = "returned"
    /\ UNCHANGED <<g_args, g_env, g_vehicle_info, g_labor_items, g_job_type,
                   g_parts_results, g_parts_items, g_trace>>
    /\ UNCHANGED <<calcVars, confVars, svcVars, apprVars>>

Next ==
    \/ VehicleDecode
    \/ RecallCheck
    \/ WarrantyCheck
    \/ LaborLookup
    \/ PartsSearch
    \/ VendorCompare
    \/ PartConditions
    \/ AddonDetection
    \/ Calculation
    \/ BuildFinalResponse

Spec == Init /\ [][Next]_vars

-----------------------------------------------------------------------------
(* The vendor, part-condition and add-on services called directly *)

VendorOfferSet ==
    {[vendor_id |-> "worldpac_001", vendor_name |-> "Worldpac", brand |-> "Bosch",
      brand_tier |-> get_brand_tier("Bosch", ""), part_number |-> "45022-SDA-A00",
      price |-> 10000, warehouse_distance_miles |-> 10],
     [vendor_id |-> "ssf_001", vendor_name |-> "SSF", brand |-> "Akebono",
      brand_tier |-> get_brand_tier("Akebono", ""), part_number |-> "45022-SDA-A00",
      price |-> 15000, warehouse_distance_miles |-> 40],
     [vendor_id |-> "ssf_002", vendor_name |-> "SSF", brand |-> "Brembo",
      brand_tier |-> get_brand_tier("Brembo", ""), part_number |-> "45022-SDA-A00",
      price |-> 10000, warehouse_distance_miles |-> 10],
     [vendor_id |-> "value_001", vendor_name |-> "Value Parts", brand |-> "Value Line",
      brand_tier |-> get_brand_tier("Value Line", ""), part_number |-> "45022-SDA-A00",
      price |-> 0, warehouse_distance_miles |-> 60]}

WeightArgs ==
    {None,
     Some([brand |-> 1, price |-> 1, distance |-> 1]),
     Some([brand |-> 10, price |-> 20, distance |-> 70]),
     Some([brand |-> 0, price |-> 100, distance |-> 0]),
     Some([brand |-> 0, price |-> 0, distance |-> 0])}

ScoreAndRankCalls ==
    [fn : {"score_and_rank_offers"},
     offers : SeqsUpTo(VendorOfferSet, MaxOffers),
     weights : WeightArgs]

PartDescriptions ==
    {"", "Reman caliper 100% new", "REMAN ALTERNATOR - BRAND NEW CORE", "Brand New OEM pads",
     "new rotor", "Brake pad set", "Rebuilt starter, core charge", "Renewed exchange unit",
     "Genuine new Rfb pump"}

DetectPartConditionCalls ==
    [fn : {"detect_part_condition"}, description : PartDescriptions]

AddonRequests ==
    {"Replace brake pads", "Brake pad and brake service", "engine oil change",
     "Timing belt and water pump", "tire rotation", "Check coolant leak"}

AddonProcedures ==
    {<<>>,
     <<"Remove valve cover", "Replace valve cover gasket">>,
     <<"Brake service", "Replace pads">>,
     <<"Drain engine oil">>}

DetectAddonsCalls ==
    [fn : {"detect_addons"}, service_request : AddonRequests, labor_procedures : AddonProcedures]

WarrantyYears == {2010, 2018, 2023, 2025}
WarrantyMakes == {"Kia", "Hyundai", "GENESIS", "Toyota", "BMW"}
WarrantyMileages == {20000, 45000, 70000, 120000}
WarrantyRequests ==
    {"", "Replace brake pads", "Transmission slipping", "engine oil change"}

CheckWarrantyCalls ==
    [fn : {"check_warranty_status"}, year : WarrantyYears, make : WarrantyMakes,
     mileage : WarrantyMileages, service_request : WarrantyRequests, current_year : {2026}]

ServiceCalls ==
    ScoreAndRankCalls \cup DetectPartConditionCalls \cup DetectAddonsCalls
    \cup CheckWarrantyCalls

ServiceInit ==
    /\ CalcIdle
    /\ ConfIdle
    /\ GenIdle
    /\ ApprIdle
    /\ s_call \in ServiceCalls
    /\ s_out = None

\* `weights = weights or VendorWeights()`
WeightsOrDefault(weights) == IF IsNone(weights) THEN VendorWeights ELSE Get(weights)

\* VendorService.score_and_rank_offers; scoring a non-empty list with weights
\* that sum to 0 raises ZeroDivisionError at line 139.
ScoreAndRankOffers ==
    /\ IsNone(s_out)
    /\ s_call.fn = "score_and_rank_offers"
    /\ LET weights == WeightsOrDefault(s_call.weights)
       IN  s_out' = Some(IF Len(s_call.offers) > 0
                            /\ weights.brand + weights.price + weights.distance = 0
                         THEN Raised("division by zero")
                         ELSE Returned(score_and_rank_offers(s_call.offers, weights)))
    /\ UNCHANGED s_call
    /\ UNCHANGED <<calcVars, confVars, genVars, apprVars>>

\* PartConditionService.detect_part_condition
DetectPartCondition ==
    /\ IsNone(s_out)
    /\ s_call.fn = "detect_part_condition"
    /\ s_out' = Some(Returned(detect_part_condition(s_call.description)))
    /\ UNCHANGED s_call
    /\ UNCHANGED <<calcVars, confVars, genVars, apprVars>>

\* AddOnService.detect_addons
DetectAddons ==
    /\ IsNone(s_out)
    /\ s_call.fn = "detect_addons"
    /\ s_out' = Some(Returned(detect_addons(s_call.service_request, s_call.labor_procedures)))
    /\ UNCHANGED s_call
    /\ UNCHANGED <<calcVars, confVars, genVars, apprVars>>

\* WarrantyService.check_warranty_status
CheckWarrantyStatus ==
    /\ IsNone(s_out)
    /\ s_call.fn = "check_warranty_status"
    /\ s_out' = Some(check_warranty_status(Some(s_call.year), Some(s_call.make), s_call.mileage,
                                           s_call.service_request, s_call.current_year))
    /\ UNCHANGED s_call
    /\ UNCHANGED <<calcVars, confVars, genVars, apprVars>>

ServiceNext ==
    \/ ScoreAndRankOffers
    \/ DetectPartCondition
    \/ DetectAddons
    \/ CheckWarrantyStatus

ServiceSpec == ServiceInit /\ [][ServiceNext]_vars

-----------------------------------------------------------------------------
(* The customer approval portal: ApprovalService (approval_service.py)      *)
(*                                                                          *)
(* _tokens is a class attribute shared by every caller; a_tokens is that    *)
(* dictionary.  Time is counted in whole days: created_at and expires_at    *)
(* are day numbers and PassWeek is the clock moving between two calls.      *)

\* ApprovalStatus
ApprovalStatus ==
    [PENDING |-> "pending", APPROVED |-> "approved", DECLINED |-> "declined",
     CALLBACK_REQUESTED |-> "callback_requested", EXPIRED |-> "expired"]

TOKEN_EXPIRY_DAYS == 7

\* The values secrets.token_urlsafe(32) hands out; a token argument is one of
\* them, issued already or not
IssuedTokens == {"tok-a", "tok-b"}

ApprovalEstimates ==
    { [estimate_id |-> "EST-1",
       customer |-> [name |-> "Ann", email |-> "ann@example.com", phone |-> "555-0101"]] }

ApprovalActions == {"approve", "Decline", "callback", "cancel"}
ApprovalNotes == {None, Some("call after 5pm")}
NotificationMethods == {"sms", "email", "fax"}

HasToken(token) == token \in DOMAIN a_tokens

\* `self._tokens[token] = token_data`
StoreToken(tokens, token, token_data) ==
    [t \in DOMAIN tokens \cup {token} |-> IF t = token THEN token_data ELSE tokens[t]]

\* `datetime.utcnow() > expires_at`
IsExpired(now, token_data) == now > token_data.expires_at

\* action_map.get(action.lower()) (<<>> = None)
action_map(action) ==
    LET a == Lower(action)
    IN  IF a = "approve" THEN Some(ApprovalStatus.APPROVED)
        ELSE IF a = "decline" THEN Some(ApprovalStatus.DECLINED)
        ELSE IF a = "callback" THEN Some(ApprovalStatus.CALLBACK_REQUESTED)
        ELSE None

\* The next_step of the response to a processed action
next_step(new_status) ==
    IF new_status = ApprovalStatus.APPROVED THEN "schedule"
    ELSE IF new_status = ApprovalStatus.DECLINED THEN "closed"
    ELSE "callback"

\* token_data after get_estimate_by_token has run on it
token_after_get(now, token_data) ==
    IF IsExpired(now, token_data) THEN [token_data EXCEPT !.status = ApprovalStatus.EXPIRED] ELSE token_data

\* token_data after process_approval has run on it
token_after_process(now, token_data, action, notes) ==
    IF IsExpired(now, token_data) THEN token_data
    ELSE IF token_data.status # ApprovalStatus.PENDING THEN token_data
    ELSE IF IsNone(action_map(action)) THEN token_data
    ELSE [token_data EXCEPT
            !.status = Get(action_map(action)),
            !.actions = Append(@, [action |-> action, timestamp |-> now, notes |-> notes])]

ApprovalCall(fn, token, value) == Some([fn |-> fn, token |-> token, value |-> value])

ApprovalInit ==
    /\ CalcIdle
    /\ ConfIdle
    /\ GenIdle
    /\ SvcIdle
    /\ a_tokens = <<>>
    /\ a_now = 0
    /\ a_out = None

\* ApprovalService.generate_approval_link; token_urlsafe(32) draws 256 random
\* bits, modelled as a value not handed out before.
GenerateApprovalLink ==
    /\ \E token \in IssuedTokens \ DOMAIN a_tokens, estimate \in ApprovalEstimates :
         LET token_data == [token |-> token,
                            estimate_id |-> estimate.estimate_id,
                            customer |-> estimate.customer,
                            created_at |-> a_now,
                            expires_at |-> a_now + TOKEN_EXPIRY_DAYS,
                            status |-> ApprovalStatus.PENDING,
                            actions |-> <<>>]
         IN  /\ a_tokens' = StoreToken(a_tokens, token, token_data)
             /\ a_out' = ApprovalCall("generate_approval_link", token,
                                      [success |-> TRUE, token |-> token,
                                       expires_at |-> token_data.expires_at])
    /\ UNCHANGED a_now
    /\ UNCHANGED <<calcVars, confVars, genVars, svcVars>>

\* ApprovalService.get_estimate_by_token
GetEstimateByToken ==
    /\ \E token \in IssuedTokens :
         IF ~HasToken(token)
         THEN /\ a_out' = ApprovalCall("get_estimate_by_token", token, None)
              /\ UNCHANGED a_tokens
         ELSE LET token_data == a_tokens[token]
              IN  /\ a_tokens' = [a_tokens EXCEPT ![token] = token_after_get(a_now, token_data)]
                  /\ a_out' = ApprovalCall("get_estimate_by_token", token,
                         IF IsExpired(a_now, token_data)
                         THEN Some([success |-> FALSE,
                                    error |-> "This estimate link has expired",
                                    expired |-> TRUE])
                         ELSE Some([success |-> TRUE,
                                    estimate_id |-> token_data.estimate_id,
                                    status |-> token_data.status,
                                    expires_at |-> token_data.expires_at]))
    /\ UNCHANGED a_now
    /\ UNCHANGED <<calcVars, confVars, genVars, svcVars>>

\* ApprovalService.process_approval
ProcessApproval ==
    /\ \E token \in IssuedTokens, action \in ApprovalActions, notes \in ApprovalNotes :
         IF ~HasToken(token)
         THEN /\ a_out' = ApprovalCall("process_approval", token,
                              [success |-> FALSE, error |-> "Invalid or expired approval link"])
              /\ UNCHANGED a_tokens
         ELSE LET token_data == a_tokens[token]
                  after == token_after_process(a_now, token_data, action, notes)
              IN  /\ a_tokens' = [a_tokens EXCEPT ![token] = after]
                  /\ a_out' = ApprovalCall("process_approval", token,
                         IF IsExpired(a_now, token_data)
                         THEN [success |-> FALSE, error |-> "This estimate link has expired"]
                         ELSE IF token_data.status # ApprovalStatus.PENDING
                         THEN [success |-> FALSE, error |-> "This estimate has already been",
                               status |-> token_data.status]
                         ELSE IF IsNone(action_map(action))
                         THEN [success |-> FALSE, error |-> "Invalid action", action |-> action]
                         ELSE [success |-> TRUE, action |-> action, status |-> after.status,
                               next_step |-> next_step(after.status),
                               estimate_id |-> token_data.estimate_id])
    /\ UNCHANGED a_now
    /\ UNCHANGED <<calcVars, confVars, genVars, svcVars>>

\* ApprovalService.send_notification
SendNotification ==
    /\ \E token \in IssuedTokens, method \in NotificationMethods :
         a_out' = ApprovalCall("send_notification", token,
                     IF ~HasToken(token)
                     THEN [success |-> FALSE, error |-> "Token not found"]
                     ELSE IF method = "sms"
                     THEN [success |-> TRUE, method |-> "sms",
                           to |-> a_tokens[token].customer.phone]
                     ELSE IF method = "email"
                     THEN [success |-> TRUE, method |-> "email",
                           to |-> a_tokens[token].customer.email]
                     ELSE [success |-> FALSE, error |-> "Unknown method", method |-> method])
    /\ UNCHANGED <<a_tokens, a_now>>
    /\ UNCHANGED <<calcVars, confVars, genVars, svcVars>>

\* The clock between two calls: utcnow() moves on by the length of a token's
\* validity, so a call finds a token fresh, at its expiry instant, or past it
PassWeek ==
    /\ a_now + TOKEN_EXPIRY_DAYS <= MaxDay
    /\ a_now' = a_now + TOKEN_EXPIRY_DAYS
    /\ UNCHANGED <<a_tokens, a_out>>
    /\ UNCHANGED <<calcVars, confVars, genVars, svcVars>>

ApprovalNext ==
    \/ GenerateApprovalLink
    \/ GetEstimateByToken
    \/ ProcessApproval
    \/ SendNotification
    \/ PassWeek

ApprovalSpec == ApprovalInit /\ [][ApprovalNext]_vars

-----------------------------------------------------------------------------
(* Properties *)

StepFailed(name) == ~g_result.steps[name].success

RaisedAt(name) == g_trace[StepIndex(name)].raised

\* C1: after generate_estimate returns, success is false if and only if the
\* vehicle_decode step or the labor_lookup step failed in that run; a failure
\* of a non-critical step never makes success false.
C1_SuccessIffCriticalStepFailed ==
    g_pc = "returned" =>
        (g_result.success = FALSE
            <=> (StepFailed("vehicle_decode") \/ StepFailed("labor_lookup")))

\* C2: whatever each of the nine steps does (succeed or raise), no exception
\* leaves generate_estimate; the steps run in their order, each one records its
\* step, a step that raised is recorded as success=false with the error it
\* raised, and the returned result holds a record for every one of the nine.
C2_StepsIsolated ==
    /\ g_pc # "raised"
    /\ Len(g_trace) <= Len(StepNames)
    /\ DOMAIN g_result.steps = {StepNames[i] : i \in 1..Len(g_trace)}
    /\ \A i \in 1..Len(g_trace) :
          /\ g_trace[i].step = StepNames[i]
          /\ g_trace[i].raised => g_result.steps[StepNames[i]] = Failed(g_trace[i].error)
    /\ g_pc \in {"build_response", "returned"} => DOMAIN g_result.steps = StepSet
    /\ g_pc = "returned" => {"success", "confidence_score", "estimate_data"} \subseteq DOMAIN g_result

\* a returned run in which six of the steps raised and the others still ran
C2_Witness ==
    /\ g_pc = "returned"
    /\ \A name \in {"vehicle_decode", "recall_check", "labor_lookup", "parts_search",
                    "addon_detection", "calculation"} : RaisedAt(name)
    /\ g_result.steps["warranty_check"].success
    /\ g_result.steps["part_conditions"].success

\* C3: when VIN decode raises while labor lookup and parts search succeed (and
\* no exception escapes calculate_estimate), the result has success=false, an
\* error entry for the VIN decode, and a calculation step recorded success=true
\* whose data holds laborTotal, partsTotal, subtotal, taxAmount, cleaningKit
\* and total.
C3_CalculationRunsAfterVinFailure ==
    (/\ g_pc = "returned"
     /\ RaisedAt("vehicle_decode")
     /\ ~StepFailed("labor_lookup")
     /\ ~StepFailed("parts_search")
     /\ g_trace[StepIndex("calculation")].error # g_env.fault)
    => /\ g_result.success = FALSE
       /\ \E i \in 1..Len(g_result.errors) : Contains(g_result.errors[i], "VIN Decode failed")
       /\ g_result.steps["calculation"].success
       /\ "data" \in DOMAIN g_result.steps["calculation"]
       /\ {"laborTotal", "partsTotal", "subtotal", "taxAmount", "cleaningKit", "total"}
             \subseteq DOMAIN g_result.steps["calculation"].data

(* Vendor ranking called directly *)

RankReturned ==
    /\ ~IsNone(s_out)
    /\ s_call.fn = "score_and_rank_offers"
    /\ ~Get(s_out).raised

Ranked == Get(s_out).value

Tagged(ranked, tag) == {i \in 1..Len(ranked) : ranked[i].selection = tag}

Occurrences(seq, x) == Cardinality({i \in 1..Len(seq) : seq[i] = x})

RankedOffers == [i \in 1..Len(Ranked) |-> Ranked[i].offer]

\* the composite score the ranking gave to an offer of its input
RankedScoreOf(o) ==
    Ranked[CHOOSE i \in 1..Len(Ranked) : Ranked[i].offer = o].composite_score

\* C11: the output of score_and_rank_offers has exactly one "Primary" when the
\* input is non-empty, exactly one "Backup" when it has at least two offers and
\* none otherwise, every other offer has the empty tag, and an empty input
\* gives an empty output.
C11_OnePrimaryOneBackup ==
    RankReturned =>
        /\ Len(Ranked) = Len(s_call.offers)
        /\ Cardinality(Tagged(Ranked, "Primary")) = (IF Len(s_call.offers) >= 1 THEN 1 ELSE 0)
        /\ Cardinality(Tagged(Ranked, "Backup")) = (IF Len(s_call.offers) >= 2 THEN 1 ELSE 0)
        /\ \A i \in 1..Len(Ranked) : Ranked[i].selection \in {"Primary", "Backup", ""}
        /\ Len(s_call.offers) = 0 => Ranked = <<>>

C11_Witness ==
    /\ RankReturned
    /\ Len(s_call.offers) = 3
    /\ Cardinality(Tagged(Ranked, "")) = 1

\* C12: the output is a permutation of the input offers in non-increasing
\* composite-score order, offers with equal composite score keep their input
\* order, the first element is the "Primary" and the second the "Backup".
C12_StableDescendingRanking ==
    RankReturned =>
        /\ Len(Ranked) = Len(s_call.offers)
        /\ \A o \in VendorOfferSet :
              Occurrences(RankedOffers, o) = Occurrences(s_call.offers, o)
        /\ \A i \in 1..(Len(Ranked) - 1) :
              Ranked[i].composite_score >= Ranked[i + 1].composite_score
        /\ \A i \in 1..Len(Ranked) :
              LET v == Ranked[i].composite_score
              IN  SelectSeq(RankedOffers, LAMBDA o : RankedScoreOf(o) = v)
                     = SelectSeq(s_call.offers, LAMBDA o : RankedScoreOf(o) = v)
        /\ Len(Ranked) >= 1 => Ranked[1].selection = "Primary"
        /\ Len(Ranked) >= 2 => Ranked[2].selection = "Backup"

\* two different offers tie and a third scores lower
C12_Witness ==
    /\ RankReturned
    /\ Len(Ranked) = 3
    /\ Ranked[1].composite_score = Ranked[2].composite_score
    /\ Ranked[1].offer # Ranked[2].offer
    /\ Ranked[2].composite_score > Ranked[3].composite_score
    /\ s_call.offers[1] = Ranked[3].offer

Offer100At10 == CHOOSE o \in VendorOfferSet : o.vendor_id = "worldpac_001"
Offer150At40 == CHOOSE o \in VendorOfferSet : o.vendor_id = "ssf_001"

Scenario4Call ==
    /\ s_call.fn = "score_and_rank_offers"
    /\ s_call.offers \in {<<Offer100At10, Offer150At40>>, <<Offer150At40, Offer100At10>>}
    /\ IsNone(s_call.weights)

\* C13: two offers of one brand tier, 100 at 10 miles and 150 at 40 miles, under
\* the default weights 40/35/25: the 100/10-mile offer has the higher composite
\* score and is "Primary", the 150/40-mile offer is "Backup".
C13_Scenario4 ==
    (Scenario4Call /\ ~IsNone(s_out)) =>
        /\ ~Get(s_out).raised
        /\ Offer100At10.price = 10000 /\ Offer100At10.warehouse_distance_miles = 10
        /\ Offer150At40.price = 15000 /\ Offer150At40.warehouse_distance_miles = 40
        /\ Offer100At10.brand_tier = Offer150At40.brand_tier
        /\ VendorWeights = [brand |-> 40, price |-> 35, distance |-> 25]
        /\ Ranked[1].offer = Offer100At10 /\ Ranked[1].selection = "Primary"
        /\ Ranked[2].offer = Offer150At40 /\ Ranked[2].selection = "Backup"
        /\ Ranked[1].composite_score > Ranked[2].composite_score

C13_Witness ==
    /\ Scenario4Call
    /\ RankReturned
    /\ s_call.offers[1] = Offer150At40
    /\ Ranked[1].composite_score = 910
    /\ Ranked[2].composite_score = 410

\* C14: for a non-empty offer list (prices >= 0, distances >= 0) and weights
\* that are non-negative with at least one positive, every brand, price and
\* distance sub-score lies in 0..10 and every composite score in 0..100.
C14_ScoresInRange ==
    (RankReturned /\ Len(s_call.offers) > 0) =>
        \A i \in 1..Len(Ranked) :
            /\ Ranked[i].brand_score \in 0..100
            /\ Ranked[i].price_score \in 0..100
            /\ Ranked[i].distance_score \in 0..100
            /\ Ranked[i].composite_score \in 0..1000

\* C15: for a list of one offer the composite score is the same for every
\* weight triple whose three weights are positive (so it is the score the
\* default triple gives).
C15_SingleOfferWeightInvariant ==
    (/\ RankReturned
     /\ Len(s_call.offers) = 1
     /\ LET w == WeightsOrDefault(s_call.weights)
        IN  w.brand > 0 /\ w.price > 0 /\ w.distance > 0)
    => Ranked[1].composite_score
          = calculate_vendor_score(s_call.offers[1], s_call.offers, VendorWeights).composite_score

(* Part-condition and add-on detection called directly *)

PartConditionReturned ==
    /\ ~IsNone(s_out)
    /\ s_call.fn = "detect_part_condition"

HasKeyword(text, keywords) ==
    \E i \in 1..Len(keywords) : Contains(Upper(text), keywords[i])

\* C16: a text containing a REMAN keyword is classified REMANUFACTURED with
\* HIGH confidence and no manual-review flag, whatever NEW keywords it also
\* contains; NEW is returned only when no REMAN keyword matches.
C16_RemanTakesPriority ==
    PartConditionReturned =>
        LET result == Get(s_out).value
        IN  /\ HasKeyword(s_call.description, REMAN_KEYWORDS) =>
                  /\ result.condition = "REMANUFACTURED"
                  /\ result.confidence = "HIGH"
                  /\ ~result.requires_manual_selection
                  /\ IsNone(result.flag_color)
            /\ result.condition = "NEW" => ~HasKeyword(s_call.description, REMAN_KEYWORDS)

C16_Witness ==
    /\ PartConditionReturned
    /\ Contains(Upper(s_call.description), "REMAN")
    /\ Contains(Upper(s_call.description), "100% NEW")
    /\ Get(s_out).value.condition = "REMANUFACTURED"

AddonsReturned ==
    /\ ~IsNone(s_out)
    /\ s_call.fn = "detect_addons"

\* the text detect_addons searches, lower-cased
AddonSearchText ==
    Lower(JoinWithBlank(<<s_call.service_request>> \o s_call.labor_procedures))

\* the rules with a keyword in the searched text
FiringRules ==
    {r \in 1..Len(ADD_ON_RULES) :
        \E k \in 1..Len(ADD_ON_RULES[r].keywords) :
            Contains(AddonSearchText, Lower(ADD_ON_RULES[r].keywords[k]))}

\* the rules with two or more keywords in the searched text
RulesMatchedTwice ==
    {r \in FiringRules :
        Cardinality({k \in 1..Len(ADD_ON_RULES[r].keywords) :
                        Contains(AddonSearchText, Lower(ADD_ON_RULES[r].keywords[k]))}) >= 2}

\* C17: the add-on list of detect_addons has no two items with the same part
\* number: a rule contributes its parts once however many of its keywords
\* match, a part number of several firing rules stays at its first occurrence,
\* and addon_count and total_price are those of the deduplicated list.
C17_AddonsDeduplicated ==
    AddonsReturned =>
        LET result == Get(s_out).value
            addons == result.addons
            \* the first (rule, item) position carrying a part number
            First(pn) == CHOOSE p \in FiringRules \X (1..3) :
                            /\ p[2] <= Len(ADD_ON_RULES[p[1]].add_items)
                            /\ ADD_ON_RULES[p[1]].add_items[p[2]].part_number = pn
                            /\ \A q \in FiringRules \X (1..3) :
                                  (/\ q[2] <= Len(ADD_ON_RULES[q[1]].add_items)
                                   /\ ADD_ON_RULES[q[1]].add_items[q[2]].part_number = pn)
                                  => (p[1] < q[1] \/ (p[1] = q[1] /\ p[2] <= q[2]))
            Before(p, q) == p[1] < q[1] \/ (p[1] = q[1] /\ p[2] < q[2])
        IN  /\ \A i, j \in 1..Len(addons) :
                  addons[i].part_number = addons[j].part_number => i = j
            /\ {addons[i].part_number : i \in 1..Len(addons)}
                  = UNION {{ADD_ON_RULES[r].add_items[k].part_number :
                               k \in 1..Len(ADD_ON_RULES[r].add_items)} : r \in FiringRules}
            /\ \A i, j \in 1..Len(addons) :
                  i < j => Before(First(addons[i].part_number), First(addons[j].part_number))
            /\ \A i \in 1..Len(addons) :
                  LET p == First(addons[i].part_number)
                  IN  /\ addons[i].rule_name = ADD_ON_RULES[p[1]].rule_name
                      /\ addons[i].price = ADD_ON_RULES[p[1]].add_items[p[2]].price
                      /\ addons[i].quantity = 1
            /\ result.addon_count = Len(addons)
            /\ result.total_price
                  = SumSeq([i \in 1..Len(addons) |-> addons[i].price * addons[i].quantity])
            /\ result.matched_rules = {ADD_ON_RULES[r].rule_name : r \in FiringRules}

\* two keywords of one rule match and a second rule fires too
C17_Witness ==
    /\ AddonsReturned
    /\ RulesMatchedTwice # {}
    /\ Cardinality(FiringRules) >= 3
    /\ Get(s_out).value.addon_count >= 6

(* Recall, warranty and flags in the pipeline *)

StepDone(name) == name \in DOMAIN g_result.steps

FlagsOfType(type) == SelectSeq(g_result.flags, LAMBDA f : f.type = type)

\* the NHTSA request of this run ended in a network error or a non-200 answer
RecallFetchFailed ==
    /\ StepDone("recall_check")
    /\ g_trace[StepIndex("recall_check")].fetch \in {"network_error", "http_error"}

\* C18: when the recall-data fetch fails (network error or non-200 response)
\* the recall_check step is marked failed (success = false), no recall flag is
\* added, has_open_recalls is false, and the pipeline goes on with the
\* remaining steps.
C18_RecallFetchFailureMarksStepFailed ==
    RecallFetchFailed =>
        LET step == g_result.steps["recall_check"]
        IN  /\ ~step.success
            /\ FlagsOfType("RED") = <<>>
            /\ ("data" \in DOMAIN step => ~step.data.has_open_recalls)
            /\ g_pc \in {"warranty_check", "labor_lookup", "parts_search", "vendor_compare",
                         "part_conditions", "addon_detection", "calculation",
                         "build_response", "returned"}

\* the request gave no odometer reading (None or 0)
NoOdometerSupplied ==
    IsNone(g_args.request_odometer) \/ Get(g_args.request_odometer) = 0

\* 100 less the deductions of every step but `excluded` and of every flag
ScoreNotCounting(excluded) ==
    LET steps == g_result.steps
        counted == DOMAIN steps \ {excluded}
        step_deductions ==
            SumOver([n \in counted |->
                        IF steps[n].success THEN 0
                        ELSE IF n \in {"vehicle_decode", "labor_lookup"} THEN 30 ELSE 10],
                    counted)
        flag_deductions ==
            20 * Len(FlagsOfType("RED")) + 10 * Len(FlagsOfType("WARNING"))
               + 5 * Len(FlagsOfType("YELLOW"))
        score == 100 - step_deductions - flag_deductions
    IN  IF score < 0 THEN 0 ELSE score

\* C19: with no odometer reading (None or 0) the warranty_check step is
\* recorded as skipped with success = true, not as failed; it appends no flag
\* and no error and does not reduce the confidence score.
C19_NoOdometerSkipsWarranty ==
    (NoOdometerSupplied /\ StepDone("warranty_check")) =>
        /\ g_result.steps["warranty_check"]
              = [success |-> TRUE,
                 data |-> [skipped |-> TRUE, reason |-> "No odometer provided"]]
        /\ ~g_trace[StepIndex("warranty_check")].raised
        /\ FlagsOfType("WARNING") = <<>>
        /\ g_pc = "labor_lookup" =>
              /\ Len(g_result.flags) = Len(FlagsOfType("RED"))
              /\ Len(g_result.errors) = (IF StepFailed("vehicle_decode") THEN 1 ELSE 0)
        /\ g_pc = "returned" =>
              g_result.confidence_score.score = ScoreNotCounting("warranty_check")

\* a decoded vehicle, no reading given at all, and the run has returned
C19_Witness ==
    /\ g_pc = "returned"
    /\ IsNone(g_args.request_odometer)
    /\ ~StepFailed("vehicle_decode")
    /\ ~IsNone(Get(g_vehicle_info).year)
    /\ g_result.steps["warranty_check"].data.skipped
    /\ g_result.confidence_score.score = ScoreNotCounting("warranty_check")

FlagRank(flag) ==
    CASE flag.type = "RED" -> 1
      [] flag.type = "WARNING" -> 2
      [] flag.type = "YELLOW" -> 3
      [] flag.type = "INFO" -> 4

IsPrefix(s, t) == Len(s) <= Len(t) /\ \A i \in 1..Len(s) : s[i] = t[i]

\* the flags are in step-declaration order
FlagsInStepOrder ==
    /\ \A i \in 1..Len(g_result.flags) :
          g_result.flags[i].type \in {"RED", "WARNING", "YELLOW", "INFO"}
    /\ \A i, j \in 1..Len(g_result.flags) :
          i < j => FlagRank(g_result.flags[i]) <= FlagRank(g_result.flags[j])
    /\ Len(FlagsOfType("RED")) <= 1
    /\ Len(FlagsOfType("WARNING")) <= 1
    /\ Len(FlagsOfType("YELLOW")) <= 1
    /\ (StepDone("addon_detection") /\ ~StepFailed("addon_detection")) =>
          LET addons == g_result.steps["addon_detection"].data.addons
              info == FlagsOfType("INFO")
          IN  /\ Len(info) = Len(addons)
              /\ \A i \in 1..Len(addons) :
                    info[i].message = "Added " \o addons[i].part_name \o ": " \o addons[i].reason

\* C20: in every returned result the flags are in step-declaration order (the
\* recall RED flag, the warranty WARNING flag, the part-condition YELLOW flag,
\* then the add-on INFO flags in add-on order), and during a run a flag, once
\* appended, is never removed, reordered or modified.
C20_FlagsOrderedAndAppendOnly ==
    /\ [](g_pc = "returned" => FlagsInStepOrder)
    /\ [][IsPrefix(g_result.flags, g_result.flags')]_vars

\* a returned result with a flag of each of the four types, two of them INFO
C20_Witness ==
    /\ g_pc = "returned"
    /\ FlagsInStepOrder
    /\ Len(FlagsOfType("RED")) = 1
    /\ Len(FlagsOfType("WARNING")) = 1
    /\ Len(FlagsOfType("YELLOW")) = 1
    /\ Len(FlagsOfType("INFO")) >= 2

\* C21: a failure of the calculation step is fatal: it is surfaced in the
\* pipeline-level errors list and the returned result has success = false.
C21_CalculationFailureIsFatal ==
    (g_pc = "returned" /\ StepFailed("calculation")) =>
        /\ \E i \in 1..Len(g_result.errors) :
              g_result.errors[i] = "Calculation failed: " \o g_result.steps["calculation"].error
        /\ ~g_result.success

\* the vendor_compare step is being taken
VendorCompareStep == g_pc = "vendor_compare" /\ g_pc' # "vendor_compare"

\* the Primary summaries the finished vendor_compare step holds for a part number
PrimariesFor(result, part_number) ==
    LET step == result.steps["vendor_compare"]
    IN  IF step.success /\ "parts" \in DOMAIN step.data
        THEN {Get(step.data.parts[k].primary) :
                 k \in {j \in 1..Len(step.data.parts) :
                           /\ step.data.parts[j].part_number = part_number
                           /\ ~IsNone(step.data.parts[j].primary)}}
        ELSE {}

\* cost x quantity x (1 + markup/100), in dollars, as a reduced fraction
PartFormulaValue(item) == Frac(item.cost * item.quantity * (100 + item.markup), 100000)

\* C22: after the vendor_compare step every part line whose unit cost was 0
\* and whose part number has a Primary offer has the Primary offer's price as
\* cost, its vendor name as vendor and cost x quantity x (1 + markup/100) as
\* total; every part line whose unit cost was non-zero keeps its cost, vendor
\* and total.
C22_VendorPricesWrittenBack ==
    [][VendorCompareStep =>
          /\ Len(g_parts_items') = Len(g_parts_items)
          /\ \A i \in 1..Len(g_parts_items) :
                LET before == g_parts_items[i]
                    after == g_parts_items'[i]
                    primaries == PrimariesFor(g_result', before.partNumber)
                IN  /\ before.cost # 0 =>
                          /\ after.cost = before.cost
                          /\ after.vendor = before.vendor
                          /\ after.total = before.total
                    /\ (before.cost = 0 /\ primaries # {}) =>
                          \E primary \in primaries :
                              /\ after.cost = primary.price
                              /\ after.vendor = primary.vendor
                              /\ Frac(after.total.n, after.total.scale) = PartFormulaValue(after)]_vars

\* a line without price took the Primary offer and a line without part number
\* stayed at cost 0
C22_Witness ==
    /\ g_pc = "part_conditions"
    /\ ~StepFailed("vendor_compare")
    /\ \E i, j \in 1..Len(g_parts_items) :
          /\ g_parts_items[i].cost = 0
          /\ g_parts_items[j].cost > 0
          /\ PrimariesFor(g_result, g_parts_items[j].partNumber) # {}
          /\ \E primary \in PrimariesFor(g_result, g_parts_items[j].partNumber) :
                /\ g_parts_items[j].cost = primary.price
                /\ g_parts_items[j].vendor = primary.vendor
          /\ g_parts_results[j].price = Some(0)

\* C23: the job type used to select the cleaning kit in the calculation step
\* is a function of the service-request text alone (the keyword bucket the
\* text hits, otherwise general), whatever the outcome of the labor lookup or
\* of any other step.
C23_JobTypeFromRequestTextAlone ==
    g_pc \in {"calculation", "build_response", "returned"} =>
        g_job_type = detect_job_type(g_args.service_request)

\* hours x rate rounded half-up to cents (hours in 1/100 h, rate in cents)
LaborFormulaCents(item) == (2 * item.hours * item.rate + 100) \div 200

\* cost x quantity x (1 + markup/100) rounded half-up to cents
PartFormulaCents(item) ==
    (2 * item.cost * item.quantity * (100 + item.markup) + 1000) \div 2000

\* C24: every labor-line total and part-line total stored in the assembled
\* estimate is non-negative and equals its formula value (hours x rate,
\* cost x quantity x (1 + markup/100)) rounded half-up to 2 decimal places.
C24_StoredTotalsRounded ==
    g_pc = "returned" =>
        /\ \A i \in 1..Len(g_result.estimate_data.laborItems) :
              LET item == g_result.estimate_data.laborItems[i]
              IN  /\ item.total.n >= 0
                  /\ Frac(item.total.n, item.total.scale) = Frac(LaborFormulaCents(item), 100)
        /\ \A i \in 1..Len(g_result.estimate_data.partsItems) :
              LET item == g_result.estimate_data.partsItems[i]
              IN  /\ item.total.n >= 0
                  /\ Frac(item.total.n, item.total.scale) = Frac(PartFormulaCents(item), 100)

(* Warranty and recall checks called directly *)

WarrantyReturned ==
    /\ ~IsNone(s_out)
    /\ s_call.fn = "check_warranty_status"
    /\ ~Get(s_out).raised

WarrantyAge == s_call.current_year - s_call.year

UnderTerms(terms) == WarrantyAge < terms.years /\ s_call.mileage < terms.miles

UnderBumperToBumper == UnderTerms(get_warranty_terms(s_call.make).bumper_to_bumper)

UnderPowertrain == UnderTerms(get_warranty_terms(s_call.make).powertrain)

PowertrainRequest ==
    \E k \in 1..Len(POWERTRAIN_COMPONENTS) :
        Contains(Lower(s_call.service_request), POWERTRAIN_COMPONENTS[k])

AlertsOfType(type) == SelectSeq(Get(s_out).value.alerts, LAMBDA a : a.type = type)

\* C25: likely_under_warranty is true exactly when the vehicle is under the
\* make's bumper-to-bumper terms, or under its powertrain terms with a
\* powertrain request; under powertrain terms with another request the
\* powertrain alert is only INFO; the WARNING flag with the options
\* "Proceed Anyway" and "Refer to Dealer" is there exactly when
\* likely_under_warranty is true.
C25_LikelyUnderWarranty ==
    WarrantyReturned =>
        LET result == Get(s_out).value
        IN  /\ result.likely_under_warranty
                  <=> (UnderBumperToBumper \/ (UnderPowertrain /\ PowertrainRequest))
            /\ (UnderPowertrain /\ ~PowertrainRequest) =>
                  AlertsOfType("Powertrain") = <<[level |-> "INFO", type |-> "Powertrain"]>>
            /\ (UnderPowertrain /\ PowertrainRequest) =>
                  AlertsOfType("Powertrain") = <<[level |-> "WARNING", type |-> "Powertrain"]>>
            /\ ~IsNone(result.flag) <=> result.likely_under_warranty
            /\ ~IsNone(result.flag) =>
                  /\ Get(result.flag).type = "WARNING"
                  /\ Get(result.flag).options = <<"Proceed Anyway", "Refer to Dealer">>

\* under powertrain terms only, with a request that is not about the powertrain
C25_Witness ==
    /\ WarrantyReturned
    /\ UnderPowertrain /\ ~UnderBumperToBumper /\ ~PowertrainRequest
    /\ s_call.service_request # ""
    /\ ~Get(s_out).value.likely_under_warranty
    /\ IsNone(Get(s_out).value.flag)
    /\ Len(Get(s_out).value.alerts) = 1

ExtendedMake ==
    \E m \in {"HYUNDAI", "KIA", "GENESIS"} : Upper(s_call.make) = m

\* C26 as stated: for a Hyundai, Kia or Genesis the extended 10-year /
\* 100,000-mile powertrain alert is in the alerts list for every vehicle age
\* and mileage.
C26_ExtendedAlertAtEveryAge ==
    (WarrantyReturned /\ ExtendedMake) => Len(AlertsOfType("Extended Powertrain")) = 1

\* C26 amended: for a Hyundai, Kia or Genesis the extended 10-year /
\* 100,000-mile powertrain alert is in the alerts list, whatever the
\* bumper-to-bumper and powertrain checks gave, exactly when the vehicle is
\* less than 10 years old and has less than 100,000 miles.
C26_ExtendedAlertWithinTenYears ==
    (WarrantyReturned /\ ExtendedMake) =>
        /\ Len(AlertsOfType("Extended Powertrain")) <= 1
        /\ Len(AlertsOfType("Extended Powertrain")) = 1
              <=> (WarrantyAge < 10 /\ s_call.mileage < 100000)
        /\ \A i \in 1..Len(AlertsOfType("Extended Powertrain")) :
              AlertsOfType("Extended Powertrain")[i].level = "WARNING"

\* a Kia past its bumper-to-bumper terms, asked for brake work, still gets it
C26_Witness ==
    /\ WarrantyReturned
    /\ s_call.make = "Kia"
    /\ ~UnderBumperToBumper
    /\ ~PowertrainRequest
    /\ WarrantyAge = 8 /\ s_call.mileage = 70000
    /\ Len(AlertsOfType("Extended Powertrain")) = 1

\* the recall record the NHTSA answer holds for a campaign number
FetchedRecall(campaign_number) ==
    CHOOSE r \in UNION {{f.recalls[i] : i \in 1..Len(f.recalls)} : f \in RecallFetches} :
        r.campaign_number = campaign_number

\* the text contains a synonym of component category c
TouchesCategory(text, c) ==
    \E k \in 1..Len(component_mappings[c].keywords) :
        Contains(Lower(text), component_mappings[c].keywords[k])

\* the recall's component + summary text contains a synonym of a category the
\* complaint also touches
RecallMatchesComplaint(recall) ==
    \E c \in 1..Len(component_mappings) :
        /\ TouchesCategory(g_args.service_request, c)
        /\ TouchesCategory(recall.component \o " " \o recall.summary, c)

\* C27: check_recalls emits a recall flag exactly when at least one open
\* recall matches the complaint; the flag is a single RED flag naming the
\* campaign number of the first matching recall in fetch order; when nothing
\* matches has_matching_recall is false and no flag reaches the pipeline's
\* flags list.
C27_RecallFlagIffMatch ==
    /\ (StepDone("recall_check") /\ StepFailed("recall_check")) => FlagsOfType("RED") = <<>>
    /\ (StepDone("recall_check") /\ ~StepFailed("recall_check")) =>
          LET data == g_result.steps["recall_check"].data
          IN  /\ FlagsOfType("RED")
                    = (IF data.has_matching_recall THEN <<Get(data.flag)>> ELSE <<>>)
              /\ g_pc = "warranty_check" =>
                    LET fetched == [i \in 1..Len(data.all_recalls) |->
                                       FetchedRecall(data.all_recalls[i])]
                        matching == SelectSeq(fetched, RecallMatchesComplaint)
                    IN  /\ data.has_matching_recall <=> Len(matching) > 0
                        /\ ~IsNone(data.flag) <=> Len(matching) > 0
                        /\ data.matching_recalls
                              = [i \in 1..Len(matching) |-> matching[i].campaign_number]
                        /\ Len(matching) > 0 =>
                              /\ Get(data.flag).type = "RED"
                              /\ Get(data.flag).message
                                    = "Possible recall match detected! Campaign: "
                                         \o matching[1].campaign_number

\* two of three open recalls match and the first fetched one does not
C27_Witness ==
    /\ g_pc = "warranty_check"
    /\ ~StepFailed("recall_check")
    /\ g_result.steps["recall_check"].data.all_recalls = <<"23V777", "24V001", "24V002">>
    /\ g_result.steps["recall_check"].data.matching_recalls = <<"24V001", "24V002">>
    /\ Len(FlagsOfType("RED")) = 1
    /\ FlagsOfType("RED")[1].message = "Possible recall match detected! Campaign: 24V001"

\* C28: every entry of the vendor comparison result pairs a part number with
\* the description of the parts-search result that carries that part number,
\* also when some parts-search results have no part number.
C28_VendorEntriesPairNumberWithItsDescription ==
    (/\ StepDone("vendor_compare")
     /\ ~StepFailed("vendor_compare")
     /\ "parts" \in DOMAIN g_result.steps["vendor_compare"].data) =>
        LET entries == g_result.steps["vendor_compare"].data.parts
        IN  \A k \in 1..Len(entries) :
                \E i \in 1..Len(g_parts_results) :
                    /\ g_parts_results[i].partNumber = entries[k].part_number
                    /\ g_parts_results[i].description = entries[k].description

\* C29: in every result returned by generate_estimate, if success is false then
\* the confidence threshold is not HIGH and the recommended action is not
\* "Auto-proceed".
C29_FailureNeverAutoProceeds ==
    (g_pc = "returned" /\ ~g_result.success) =>
        /\ g_result.confidence_score.threshold # "HIGH"
        /\ g_result.confidence_score.action # "Auto-proceed"

\* success is false although vehicle_decode and labor_lookup succeeded, and the
\* score is the highest a failed run can get
C29_Witness ==
    /\ g_pc = "returned"
    /\ ~g_result.success
    /\ ~StepFailed("vehicle_decode")
    /\ ~StepFailed("labor_lookup")
    /\ g_result.confidence_score.score = 80
    /\ g_result.confidence_score.threshold = "MEDIUM"
\* The statuses process_approval gives a token
DecidedStatuses == {ApprovalStatus.APPROVED, ApprovalStatus.DECLINED, ApprovalStatus.CALLBACK_REQUESTED}

\* C30: once process_approval has made a token's status approved, declined or
\* callback_requested, no later call of get_estimate_by_token,
\* process_approval, send_notification or generate_approval_link, before or
\* after the token's expiry, changes that status.
C30_DecidedStatusNeverChanges ==
    [][\A token \in DOMAIN a_tokens :
         a_tokens[token].status \in DecidedStatuses
            => a_tokens'[token].status = a_tokens[token].status]_vars

\* The one step that changes a decided status: get_estimate_by_token on a
\* token whose expiry has passed.
DecidedStatusKeptUntilViewedAfterExpiry ==
    [][\A token \in DOMAIN a_tokens :
         /\ a_tokens[token].status \in DecidedStatuses
         /\ a_tokens'[token].status # a_tokens[token].status
         => /\ a_out'[1].fn = "get_estimate_by_token"
            /\ a_out'[1].token = token
            /\ a_now > a_tokens[token].expires_at
            /\ a_tokens'[token].status = ApprovalStatus.EXPIRED]_vars


\* The cleaning-kit price list as documented, by job type.
DocumentedKitPrice(job_type) ==
    CASE job_type = "brake_service" -> 1500
      [] job_type = "engine_repair" -> 2000
      [] job_type = "ac_service" -> 1800
      [] job_type = "transmission" -> 1600
      [] job_type = "suspension" -> 1400
      [] OTHER -> 1200

\* The job type and kit switch a call to calculate_estimate was made with.
CallJobType == IF c_call = "calculation_service" THEN c_job_type ELSE "general"
CallIncludesKit == IF c_call = "calculation_service" THEN c_include ELSE TRUE

\* The documented threshold bands of a confidence score.
DocumentedBand(s) ==
    IF s >= 90 THEN <<"HIGH", "Auto-proceed">>
    ELSE IF s >= 70 THEN <<"MEDIUM", "Quick advisor review recommended">>
    ELSE <<"LOW", "Human advisor required">>

\* 100 minus the documented deductions for step outcomes k_steps and flags k_flags.
DocumentedRawScore ==
    LET failedCritical == Cardinality({n \in {"vehicle_decode", "labor_lookup"} : ~k_steps[n].success})
        failedOther == Cardinality({n \in DOMAIN k_steps \ {"vehicle_decode", "labor_lookup"} :
                                        ~k_steps[n].success})
        count(t) == Cardinality({i \in 1..Len(k_flags) : k_flags[i].type = t})
    IN  100 - 30 * failedCritical - 10 * failedOther
            - 20 * count("RED") - 10 * count("WARNING") - 5 * count("YELLOW")

\* C4: the confidence score is 100 minus 30 per failed critical step, 10 per
\* other failed step, 20 per RED, 10 per WARNING and 5 per YELLOW flag (INFO
\* deducts nothing), clamped to 0..100; it is never negative.
C4_ConfidenceScoreClamped ==
    ~IsNone(k_out) =>
        LET raw == DocumentedRawScore
            expected == IF raw < 0 THEN 0 ELSE IF raw > 100 THEN 100 ELSE raw
        IN  /\ Get(k_out).score = expected
            /\ Get(k_out).score \in 0..100

\* C4 witness: a run whose deductions exceed 100 has been scored.
C4_Witness == ~IsNone(k_out) /\ DocumentedRawScore < 0 /\ Len(k_flags) > 0

\* C5: for every score s in 0..100 the band is HIGH/"Auto-proceed" exactly
\* when s >= 90, MEDIUM/"Quick advisor review recommended" exactly when
\* 70 <= s < 90, LOW/"Human advisor required" exactly when s < 70; and every
\* reported confidence carries the band of its score.
C5_ThresholdBands ==
    /\ \A s \in 0..100 :
          <<ThresholdOf(s).threshold, ThresholdOf(s).action>> = DocumentedBand(s)
    /\ ~IsNone(k_out) =>
          <<Get(k_out).threshold, Get(k_out).action>> = DocumentedBand(Get(k_out).score)

\* C5 witness: a score on the HIGH boundary has been reported.
C5_Witness == ~IsNone(k_out) /\ Get(k_out).score = 90 /\ Get(k_out).threshold = "HIGH"

Scenario1Inputs ==
    /\ c_call = "calculation_service"
    /\ Len(c_labor) = 1 /\ c_labor[1].hours = 150 /\ c_labor[1].rate = 12000
    /\ Len(c_parts) = 1 /\ c_parts[1].cost = 8500 /\ c_parts[1].quantity = 10
    /\ c_parts[1].markup = 30
    /\ c_tax_rate = Some(800)

\* C7: labor {1.5 h, 120/h}, part {cost 85, quantity 1, markup 30}, tax 0.08
\* gives laborTotal 180.00, partsTotal 110.50, subtotal 290.50, taxAmount
\* 23.24, total 313.74 without kit and 328.74 with the brake_service kit.
C7_Scenario ==
    Scenario1Inputs =>
        LET b == Get(c_out)
        IN  /\ b.laborTotal = 18000 /\ b.partsTotal = 11050
            /\ b.subtotal = 29050 /\ b.taxAmount = 2324
            /\ (~c_include => b.total = 31374)
            /\ (c_include /\ c_job_type = "brake_service" => b.total = 32874)

\* C7 witness: scenario 2 has been calculated.
C7_Witness == Scenario1Inputs /\ c_include /\ c_job_type = "brake_service"

\* C8 (as claimed): for every passed tax rate in 0..1, the rate 0 included,
\* taxAmount is subtotal x that rate, rounded half-up to cents.
C8_TaxUsesPassedRate ==
    (c_call \in {"calculation_service", "estimate_service"} /\ ~IsNone(c_tax_rate)) =>
        Get(c_out).taxAmount = (2 * Get(c_out).subtotal * Get(c_tax_rate) + 10000) \div 20000

\* C9: the kit is the table entry of the job type, the general kit for a job
\* type that is no table key; with include_cleaning_kit false the breakdown
\* carries no kit and the kit adds 0 to total.
C9_KitSelection ==
    c_call = "calculation_service" =>
        LET b == Get(c_out)
            contribution == b.total - b.subtotal - b.taxAmount
        IN  /\ c_include => contribution = DocumentedKitPrice(c_job_type)
            /\ ~c_include => (contribution = 0 /\ "cleaningKit" \notin DOMAIN b)

\* C9 witness: a kit was selected for a job type that is no table key.
C9_Witness ==
    /\ c_call = "calculation_service" /\ c_include
    /\ c_job_type \notin {"brake_service", "engine_repair", "ac_service",
                          "transmission", "suspension", "general"}

\* C10: running recalculate_item_totals then calculate_estimate again on the
\* lines the first run returned gives the same line totals and breakdown.
C10_RecalculateIdempotent ==
    \A i \in 2..Len(c_hist) :
        /\ c_hist[i].laborItems = c_hist[1].laborItems
        /\ c_hist[i].partsItems = c_hist[1].partsItems
        /\ c_hist[i].breakdown = c_hist[1].breakdown

\* C10 witness: the pair has run twice on non-empty labor and part lines.
C10_Witness ==
    /\ Len(c_hist) >= 2
    /\ Len(c_hist[1].laborItems) > 0 /\ Len(c_hist[1].partsItems) > 0
    /\ c_hist[1].laborItems[1].total.n > 0

=============================================================================
